---- MODULE Spec2Model ----
(***************************************************************************)
(* A model of the Abagio rules engine: the Game turn/phase state machine   *)
(* (game.py), the Board, its Spaces and the Frog movement engine           *)
(* (gamepieces.py) and the Timer (timer.py).                               *)
(*                                                                         *)
(* Representation choices.                                                 *)
(*  - A frog is identified by its 1-based index in the registry            *)
(*    Board._frogs (Game._frogs holds the same objects in the same order). *)
(*  - Coordinates are fixed-point integers, 1000 units per pixel, and      *)
(*    velocities are units per millisecond; Python computes them in        *)
(*    floating point.  Every movement is armed while the frog stands on    *)
(*    whole pixels.                                                        *)
(*  - A Timer holds done_time - now instead of the absolute done_time,     *)
(*    never less than 0 while running; STOPPED models done_time = -1.      *)
(*    Time advances by dt once per tick, the value pygame's clock hands    *)
(*    to Board.render_frogs.  A Timer called on its own is the variable    *)
(*    timer, its absolute done_time, next to ticks, the reading of         *)
(*    pygame.time.get_ticks(), and running, which records that start was   *)
(*    called and stop was not called since.                                *)
(*  - An uncaught Python exception ends the program: it is recorded in     *)
(*    the board's error field and no tick follows it.                      *)
(*  - The blink phase of the die indicator lamps (_indicator_on and        *)
(*    _indicator_timer) and the texts drawn are display state that no      *)
(*    transition reads; they are not modelled.  A frog's collision_rect    *)
(*    is the bounding box of its last drawing, which for every frog that   *)
(*    is not moving is the box around its current coordinates.             *)
(***************************************************************************)
EXTENDS Integers, Sequences, FiniteSets, TLC

VARIABLES state, turn_stage, roll_state, move_state, rolling_player,
          has_rolled_before, doubles, selected_die, rolls, setup_timer,
          die1, die2, board, roll_button, ok_button, game_exit, moves,
          returned, timer, ticks, running

vars == <<state, turn_stage, roll_state, move_state, rolling_player,
          has_rolled_before, doubles, selected_die, rolls, setup_timer,
          die1, die2, board, roll_button, ok_button, game_exit, moves,
          returned, timer, ticks, running>>

(***************************************************************************)
(* Bounds of the model.                                                    *)
(***************************************************************************)
\* The number of moves the players commit in one run.
MaxMoves == 4
\* The number of mouse-button-up events queued in one tick.
MaxClicks == 2
\* The two frame times, in milliseconds, a tick may take.
DtShort == 300
DtLong == 3000

\* The faces the random generator is seen to draw.
RandomFaces == {1, 5}

(***************************************************************************)
(* Program constants.                                                      *)
(***************************************************************************)
STOPPED == -1
NoLayer == -1
PIXELS_PER_MS == 200
DISPLAY_RADIUS == 20
LAYER_SPACING == 10
BOARD_X == 320
BOARD_Y == 60
DIE_SPEED == 75
SETUP_WAIT == 1000

Px(p) == p * 1000

\* Board.__init__: name :> <<capacity, x, y>>
SpaceDef ==
  "sw" :> <<12, 52, 548>> @@ "se" :> <<12, 147, 548>> @@
  "1" :> <<5, 52, 450>> @@ "2" :> <<5, 52, 350>> @@ "3" :> <<5, 52, 250>> @@
  "4" :> <<5, 52, 150>> @@ "5" :> <<5, 52, 52>> @@ "6" :> <<5, 150, 52>> @@
  "7" :> <<5, 250, 52>> @@ "8" :> <<5, 350, 52>> @@ "9" :> <<5, 450, 52>> @@
  "10" :> <<5, 548, 52>> @@ "11" :> <<5, 548, 150>> @@
  "12" :> <<5, 548, 250>> @@ "13" :> <<5, 548, 350>> @@
  "14" :> <<5, 548, 450>> @@ "15" :> <<5, 548, 548>> @@
  "16" :> <<5, 450, 548>> @@ "17" :> <<5, 350, 548>> @@
  "18" :> <<5, 252, 548>> @@ "19" :> <<2, 300, 500>> @@
  "20r" :> <<5, 248, 446>> @@ "21r" :> <<5, 154, 446>> @@
  "22r" :> <<5, 154, 350>> @@ "23r" :> <<5, 154, 250>> @@
  "24r" :> <<5, 154, 154>> @@ "25r" :> <<5, 248, 154>> @@
  "20p" :> <<5, 352, 446>> @@ "21p" :> <<5, 446, 446>> @@
  "22p" :> <<5, 446, 350>> @@ "23p" :> <<5, 446, 250>> @@
  "24p" :> <<5, 446, 154>> @@ "25p" :> <<5, 352, 154>> @@
  "26" :> <<2, 299, 199>> @@ "er" :> <<12, 248, 350>> @@
  "ep" :> <<12, 352, 350>>

SpaceNames == DOMAIN SpaceDef
Capacity(s) == SpaceDef[s][1]
SpaceX(s) == SpaceDef[s][2]
SpaceY(s) == SpaceDef[s][3]

\* Board.__init__: no frogs, every space empty.
Board_init == [frogs |-> << >>, spaces |-> [s \in SpaceNames |-> << >>],
               error |-> ""]

Raise(b, e) == IF b.error = "" THEN [b EXCEPT !.error = e] ELSE b

Abs(n) == IF n < 0 THEN -n ELSE n

RECURSIVE ISqrtIn(_, _, _)
ISqrtIn(n, lo, hi) ==
  IF lo >= hi THEN lo
  ELSE LET mid == (lo + hi + 1) \div 2
       IN IF mid * mid <= n THEN ISqrtIn(n, mid, hi) ELSE ISqrtIn(n, lo, mid - 1)

\* The integer square root, standing for Python's ** 0.5.
ISqrt(n) == ISqrtIn(n, 0, 46340)

(***************************************************************************)
(* Timer                                                                   *)
(***************************************************************************)
Timer_start(time_to_wait) == time_to_wait

Timer_is_done(done_time) == done_time # STOPPED /\ done_time <= 0

Timer_stop == STOPPED

\* Timer.start with both arguments: the done_time it sets.
Timer_start_from(time_to_wait, start_time) == start_time + time_to_wait

\* A faulty is_done: not yet done at the done time itself.
Timer_is_done_by_late(done_time, current_time) ==
  done_time # STOPPED /\ current_time > done_time

\* Timer.is_done with its argument, for a timer of that done_time.
Timer_is_done_by(done_time, current_time) ==
  done_time # STOPPED /\ current_time >= done_time

\* The clock moving on by dt, seen from a timer.
Timer_elapse(done_time, dt) ==
  IF done_time = STOPPED THEN STOPPED
  ELSE IF done_time - dt < 0 THEN 0 ELSE done_time - dt

(***************************************************************************)
(* Space                                                                   *)
(***************************************************************************)
Space_lowest_empty_layer(b, s) ==
  LET layer == Len(b.spaces[s])
  IN IF layer >= Capacity(s) THEN NoLayer ELSE layer

\* A faulty add: the capacity is not looked at.
Space_add_unchecked(b, s, f) ==
  [b |-> [b EXCEPT !.spaces[s] = Append(@, f)], layer |-> Len(b.spaces[s])]

\* The board after the call, and the layer returned.
Space_add(b, s, f) ==
  LET layer == Len(b.spaces[s])
  IN IF layer >= Capacity(s)
     THEN [b |-> Raise(b, "RuntimeError"), layer |-> NoLayer]
     ELSE [b |-> [b EXCEPT !.spaces[s] = Append(@, f)], layer |-> layer]

Space_is_on_top(b, s, f) ==
  Len(b.spaces[s]) > 0 /\ b.spaces[s][Len(b.spaces[s])] = f

Space_pop_verify(b, s, f) ==
  IF ~Space_is_on_top(b, s, f) THEN Raise(b, "RuntimeError")
  ELSE [b EXCEPT !.spaces[s] = SubSeq(@, 1, Len(@) - 1)]

\* A faulty rule: a heap of three of the other colour does not keep a frog
\* out.
Space_can_legally_take_capacity_only(b, s, f) ==
  Len(b.spaces[s]) < Capacity(s)

Space_can_legally_take(b, s, f) ==
  LET st == b.spaces[s]
      n == Len(st)
  IN IF /\ n >= 3
        /\ b.frogs[st[n]].color # b.frogs[f].color
        /\ b.frogs[st[n]].color = b.frogs[st[n - 1]].color
        /\ b.frogs[st[n]].color = b.frogs[st[n - 2]].color
     THEN FALSE
     ELSE n < Capacity(s)

(***************************************************************************)
(* Frog: arming a movement                                                 *)
(***************************************************************************)
Frog_direct_coords_move(b, f, x_target, y_target) ==
  LET fr == b.frogs[f]
      dx == (x_target - fr.x) \div 1000
      dy == (y_target - fr.y) \div 1000
      xm == (PIXELS_PER_MS * Abs(dx) * 16) \div ISqrt(256 * (dx * dx + dy * dy))
      ym == (Abs(dy) * xm) \div Abs(dx)
  IN IF x_target - fr.x = 0
     THEN [b EXCEPT !.frogs[f].x_target = x_target,
                    !.frogs[f].y_target = y_target,
                    !.frogs[f].x_move = 0,
                    !.frogs[f].y_move = IF y_target >= fr.y THEN PIXELS_PER_MS
                                        ELSE -PIXELS_PER_MS]
     ELSE [b EXCEPT !.frogs[f].x_target = x_target,
                    !.frogs[f].y_target = y_target,
                    !.frogs[f].x_move = IF x_target < fr.x THEN -xm ELSE xm,
                    !.frogs[f].y_move = IF y_target < fr.y THEN -ym ELSE ym]

\* A faulty shift_down: the frog moves down on the screen and keeps its
\* layer.
Frog_shift_down_keeps_layer(b, f) ==
  Frog_direct_coords_move(b, f, b.frogs[f].x,
                          b.frogs[f].y + Px(LAYER_SPACING))

\* shift_down
Frog_shift_down(b, f) ==
  LET b1 == [b EXCEPT !.frogs[f].layer = @ - 1]
  IN Frog_direct_coords_move(b1, f, b1.frogs[f].x,
                             b1.frogs[f].y + Px(LAYER_SPACING))

RECURSIVE ShiftDownAll(_, _, _)
\* for fg in self._frogs[idx:]: fg.shift_down()
ShiftDownAll(b, st, i) ==
  IF i > Len(st) THEN b ELSE ShiftDownAll(Frog_shift_down(b, st[i]), st, i + 1)

\* A faulty pull_out: the frogs above the frog keep their layer.
Space_pull_out_no_shift(b, s, f) ==
  LET st == b.spaces[s]
      at == {i \in 1..Len(st) : st[i] = f}
  IN IF at = {} THEN Raise(b, "ValueError")
     ELSE [b EXCEPT !.spaces[s] = SelectSeq(st, LAMBDA g : g # f)]

Space_pull_out(b, s, f) ==
  LET st == b.spaces[s]
      at == {i \in 1..Len(st) : st[i] = f}
  IN IF at = {} THEN Raise(b, "ValueError")
     ELSE LET idx == CHOOSE i \in at : \A j \in at : i <= j
              rest == SubSeq(st, 1, idx - 1) \o SubSeq(st, idx + 1, Len(st))
          IN ShiftDownAll([b EXCEPT !.spaces[s] = rest], rest, idx)

\* The end of send_home, the frog pulled out of its stack: the movement to
\* the lowest empty layer of the root.
Frog_head_home(b, f, root) ==
  IF b.error # "" THEN b
  ELSE IF Space_lowest_empty_layer(b, root) = NoLayer
  THEN Raise(b, "TypeError")
  ELSE Frog_direct_coords_move(b, f, Px(SpaceX(root) + BOARD_X),
         Px(SpaceY(root) + BOARD_Y
            - Space_lowest_empty_layer(b, root) * LAYER_SPACING))

Frog_send_home(b, f) ==
  Frog_head_home(
    Space_pull_out([b EXCEPT !.frogs[f].is_being_sent_home = TRUE,
                             !.frogs[f].target_space = b.frogs[f].path[1]],
                   b.frogs[f].space, f),
    f, b.frogs[f].path[1])

RECURSIVE SetOffsets(_, _, _, _)
\* render_priority_offset = v for the frogs st[i..]
SetOffsets(b, st, i, v) ==
  IF i > Len(st) THEN b
  ELSE SetOffsets([b EXCEPT !.frogs[st[i]].render_priority_offset = v],
                  st, i + 1, v)

\* A faulty capture: the frog under the hit frog does not protect it.
Space_send_frogs_home_unprotected(b, s) ==
  LET st == b.spaces[s]
      n == Len(st)
  IN IF n >= 2 /\ b.frogs[st[n]].color # b.frogs[st[n - 1]].color
     THEN Frog_send_home(
            [SetOffsets(b, st, 1, 50) EXCEPT
               !.frogs[st[n]].render_priority_offset = 51],
            st[n - 1])
     ELSE b

Space_send_frogs_home(b, s) ==
  LET st == b.spaces[s]
      n == Len(st)
  IN IF n < 2 THEN b
     ELSE LET highest_frog == st[n]
              send_home_frog == st[n - 1]
              sending_frog_home ==
                IF n >= 3
                THEN /\ b.frogs[highest_frog].color
                          # b.frogs[send_home_frog].color
                     /\ b.frogs[send_home_frog].color
                          # b.frogs[st[n - 2]].color
                ELSE b.frogs[highest_frog].color
                       # b.frogs[send_home_frog].color
              b1 == SetOffsets(b, st, 1, 50)
              b2 == [b1 EXCEPT
                       !.frogs[highest_frog].render_priority_offset = @ + 1]
          IN IF sending_frog_home THEN Frog_send_home(b2, send_home_frog)
             ELSE b

\* The name of the space `increment` places after current_space on the
\* frog's path; "" stands for None.
Frog_increment_space(fr, increment, current_space) ==
  LET at == CHOOSE i \in 1..Len(fr.path) : fr.path[i] = current_space
      new_space_index == at + increment
  IN IF new_space_index > Len(fr.path) THEN "" ELSE fr.path[new_space_index]

\* The end of direct_space_move, the frog popped from its stack: the frog
\* takes the lowest empty layer of the space, or the temporary layer above
\* a full one, and moves there.
Frog_enter_space(b, f, space, layer) ==
  Frog_direct_coords_move(
    [b EXCEPT !.frogs[f].space = space, !.frogs[f].layer = layer], f,
    Px(SpaceX(space) + BOARD_X),
    Px(SpaceY(space) + BOARD_Y - layer * LAYER_SPACING))

\* A faulty move onto a full space: the frog is put on the stack all the
\* same.
Frog_take_space_always_inserts(b, f, space) ==
  IF b.error # "" THEN b
  ELSE Frog_enter_space([b EXCEPT !.spaces[space] = Append(@, f)], f, space,
                        Len(b.spaces[space]))

Frog_take_space(b, f, space) ==
  IF b.error # "" THEN b
  ELSE IF Space_lowest_empty_layer(b, space) = NoLayer
  THEN Frog_enter_space(b, f, space, Capacity(space))
  ELSE Frog_enter_space(Space_add(b, space, f).b, f, space,
                        Space_lowest_empty_layer(b, space))

\* A faulty move: the frog is not taken off the stack it leaves.
Frog_direct_space_move_leaves_copy(b, f, space) ==
  Frog_take_space(b, f, space)

\* A faulty move: the frog is taken from wherever it is in its stack.
Frog_direct_space_move_from_anywhere(b, f, space) ==
  Frog_take_space(
    IF b.frogs[f].layer < Capacity(b.frogs[f].space)
    THEN [b EXCEPT !.spaces[b.frogs[f].space] =
                     SelectSeq(@, LAMBDA g : g # f)]
    ELSE b,
    f, space)

Frog_direct_space_move(b, f, space) ==
  Frog_take_space(
    IF b.frogs[f].layer < Capacity(b.frogs[f].space)
    THEN Space_pop_verify(b, b.frogs[f].space, f) ELSE b,
    f, space)

\* A faulty stepwise_move: a move past the end of the path stops at the end.
Frog_stepwise_move_clamped(b, f, spaces_to_move) ==
  LET fr == b.frogs[f]
      target == Frog_increment_space(fr, spaces_to_move, fr.space)
  IN Frog_direct_space_move(
       [b EXCEPT !.frogs[f].target_space =
                   IF target = "" THEN fr.path[Len(fr.path)] ELSE target,
                 !.frogs[f].stepwise_movement = TRUE],
       f, Frog_increment_space(fr, 1, fr.space))

Frog_stepwise_move(b, f, spaces_to_move) ==
  LET fr == b.frogs[f]
      target == Frog_increment_space(fr, spaces_to_move, fr.space)
      b1 == [b EXCEPT !.frogs[f].target_space = target]
  IN IF target = "" THEN Raise(b1, "ValueError")
     ELSE Frog_direct_space_move(
            [b1 EXCEPT !.frogs[f].stepwise_movement = TRUE], f,
            Frog_increment_space(fr, 1, fr.space))

Frog_is_moving(fr) == fr.x # fr.x_target \/ fr.y # fr.y_target

\* for frog in self._frogs: if frog.is_moving(): ... finds none
NoFrogMoving(b) == \A i \in 1..Len(b.frogs) : ~Frog_is_moving(b.frogs[i])

Frog_is_on_top(b, f) == Space_is_on_top(b, b.frogs[f].space, f)

\* A faulty check: room on the space is enough, whatever heap lies on it.
Frog_can_make_legal_leap_by_room(b, f, spaces_to_move) ==
  LET new_space ==
        Frog_increment_space(b.frogs[f], spaces_to_move, b.frogs[f].space)
  IN new_space # "" /\ Len(b.spaces[new_space]) < Capacity(new_space)

\* can_make_legal_leap
Frog_can_make_legal_leap(b, f, spaces_to_move) ==
  LET new_space ==
        Frog_increment_space(b.frogs[f], spaces_to_move, b.frogs[f].space)
  IN new_space # "" /\ Space_can_legally_take(b, new_space, f)

(***************************************************************************)
(* Frog: creation, per-tick coordinate update, rendering order             *)
(***************************************************************************)
\* Frog.__init__: the frog joins the registry and then its starting space.
\* A faulty constructor: the frog goes under the frogs of its starting
\* space, at layer 0.
Frog_init_at_bottom(b, color, starting_space_name, path_space_names) ==
  LET f == Len(b.frogs) + 1
      fr == [color |-> color,
             space |-> starting_space_name,
             path |-> path_space_names,
             layer |-> 0,
             is_being_sent_home |-> FALSE,
             x |-> Px(SpaceX(starting_space_name) + BOARD_X),
             x_target |-> Px(SpaceX(starting_space_name) + BOARD_X),
             x_move |-> 0,
             y |-> Px(SpaceY(starting_space_name) + BOARD_Y),
             y_target |-> Px(SpaceY(starting_space_name) + BOARD_Y),
             y_move |-> 0,
             target_space |-> starting_space_name,
             stepwise_movement |-> FALSE,
             render_priority |-> 0,
             render_priority_offset |-> 0]
  IN IF b.error # "" THEN b
     ELSE IF Len(b.spaces[starting_space_name])
               >= Capacity(starting_space_name)
     THEN [Raise(b, "RuntimeError") EXCEPT !.frogs = Append(@, fr)]
     ELSE [b EXCEPT !.frogs = Append(@, fr),
                    !.spaces[starting_space_name] = <<f>> \o @]

Frog_init(b, color, starting_space_name, path_space_names) ==
  LET f == Len(b.frogs) + 1
      added == Space_add(b, starting_space_name, f)
      fr == [color |-> color,
             space |-> starting_space_name,
             path |-> path_space_names,
             layer |-> added.layer,
             is_being_sent_home |-> FALSE,
             x |-> Px(SpaceX(starting_space_name) + BOARD_X),
             x_target |-> Px(SpaceX(starting_space_name) + BOARD_X),
             x_move |-> 0,
             y |-> Px(SpaceY(starting_space_name) + BOARD_Y
                      - added.layer * LAYER_SPACING),
             y_target |-> Px(SpaceY(starting_space_name) + BOARD_Y
                             - added.layer * LAYER_SPACING),
             y_move |-> 0,
             target_space |-> starting_space_name,
             stepwise_movement |-> FALSE,
             render_priority |-> 0,
             render_priority_offset |-> 0]
  IN IF b.error # "" THEN b
     ELSE [added.b EXCEPT !.frogs = Append(@, fr)]

\* One axis of update_coords: the coordinate after moving by move * dt,
\* stopped at the target.
AxisStep(pos, move, target, dt) ==
  IF move * dt >= 0
  THEN IF pos + move * dt >= target THEN target ELSE pos + move * dt
  ELSE IF pos + move * dt <= target THEN target ELSE pos + move * dt

\* One axis of update_coords: whether this call finished the axis.
AxisFinished(pos, move, target, dt) ==
  IF move * dt >= 0 THEN pos + move * dt >= target
  ELSE pos + move * dt <= target

\* A faulty reset: only the first frog of the board loses its offset.
ResetOffsets_first_only(b, i) ==
  IF i > Len(b.frogs) THEN b
  ELSE [b EXCEPT !.frogs[i].render_priority_offset = 0]

RECURSIVE ResetOffsets(_, _)
\* for frog in self._board.frogs: frog.render_priority_offset = 0
ResetOffsets(b, i) ==
  IF i > Len(b.frogs) THEN b
  ELSE ResetOffsets([b EXCEPT !.frogs[i].render_priority_offset = 0], i + 1)

\* A faulty landing: the render priority offsets stay as the capture set
\* them.
Frog_land_home_keeps_offsets(added, f, space) ==
  IF added.b.error # "" THEN added.b
  ELSE [added.b EXCEPT !.frogs[f].is_being_sent_home = FALSE,
                       !.frogs[f].space = space,
                       !.frogs[f].layer = added.layer]

\* update_coords, the frog being sent home and arrived: it joins the stack
\* of its target space; added is what Space.add gave.
Frog_land_home(added, f, space) ==
  IF added.b.error # "" THEN added.b
  ELSE ResetOffsets([added.b EXCEPT !.frogs[f].is_being_sent_home = FALSE,
                                    !.frogs[f].space = space,
                                    !.frogs[f].layer = added.layer], 1)

\* A faulty arrival: the stepwise flag stays set.
Frog_end_stepwise_keeps_flag(sent, f) == sent

\* update_coords, a stepwise movement arrived at its target space; sent is
\* the board after send_frogs_home.
Frog_end_stepwise(sent, f) ==
  IF sent.error # "" THEN sent
  ELSE [sent EXCEPT !.frogs[f].stepwise_movement = FALSE]

\* A faulty arrival: frogs are sent home on every space of the way.
Frog_arrive_stepwise_sends_each_hop(b, f) ==
  IF b.error = "" /\ b.frogs[f].stepwise_movement
  THEN IF b.frogs[f].space = b.frogs[f].target_space
       THEN Frog_end_stepwise(Space_send_frogs_home(b, b.frogs[f].space), f)
       ELSE Frog_direct_space_move(
              Space_send_frogs_home(b, b.frogs[f].space), f,
              Frog_increment_space(b.frogs[f], 1, b.frogs[f].space))
  ELSE b

\* update_coords, the frog arrived at the end of a leg: the stepwise part.
Frog_arrive_stepwise(b, f) ==
  IF b.error = "" /\ b.frogs[f].stepwise_movement
  THEN IF b.frogs[f].space = b.frogs[f].target_space
       THEN Frog_end_stepwise(Space_send_frogs_home(b, b.frogs[f].space), f)
       ELSE Frog_direct_space_move(b, f,
              Frog_increment_space(b.frogs[f], 1, b.frogs[f].space))
  ELSE b

\* update_coords, the frog arrived at the end of a leg.
Frog_arrive(b, f) ==
  Frog_arrive_stepwise(
    IF b.frogs[f].is_being_sent_home
    THEN Frog_land_home(Space_add(b, b.frogs[f].target_space, f), f,
                        b.frogs[f].target_space)
    ELSE b,
    f)

\* update_coords, the new coordinates set.
Frog_moved(b, f, finished) == IF finished THEN Frog_arrive(b, f) ELSE b

Frog_update_coords(b, f, dt) ==
  LET fr == b.frogs[f]
  IN IF b.error # "" THEN b
     ELSE Frog_moved(
            [b EXCEPT
               !.frogs[f].x = AxisStep(fr.x, fr.x_move, fr.x_target, dt),
               !.frogs[f].y = AxisStep(fr.y, fr.y_move, fr.y_target, dt)],
            f,
            /\ AxisFinished(fr.x, fr.x_move, fr.x_target, dt)
            /\ AxisFinished(fr.y, fr.y_move, fr.y_target, dt))

\* A faulty priority: a frog being sent home counts as a moving frog.
\* self._x + x_move_dt as Python computes it: the two are floating-point
\* numbers and so is their sum, the exact sum rounded.  With 1000 units per
\* pixel the rounded sum is the exact one moved by err, one unit at most;
\* adding 0 is exact.
FloatSum(pos, move_dt, err) == IF move_dt = 0 THEN pos ELSE pos + move_dt + err

\* The errors the rounding of one sum may make.
RoundingErrors == {-1, 0, 1}

\* One axis of update_coords, the sum being sum.
AxisStepFloat(sum, move_dt, target) ==
  IF move_dt >= 0
  THEN IF sum >= target THEN target ELSE sum
  ELSE IF sum <= target THEN target ELSE sum

\* One axis of update_coords: whether this call finished the axis, the sum
\* being sum.
AxisFinishedFloat(sum, move_dt, target) ==
  IF move_dt >= 0 THEN sum >= target ELSE sum <= target

\* update_coords, the sums of its two axes rounded with the errors ex, ey.
Frog_update_coords_float(b, f, dt, ex, ey) ==
  LET fr == b.frogs[f]
      sx == FloatSum(fr.x, fr.x_move * dt, ex)
      sy == FloatSum(fr.y, fr.y_move * dt, ey)
  IN IF b.error # "" THEN b
     ELSE Frog_moved(
            [b EXCEPT
               !.frogs[f].x = AxisStepFloat(sx, fr.x_move * dt, fr.x_target),
               !.frogs[f].y = AxisStepFloat(sy, fr.y_move * dt, fr.y_target)],
            f,
            /\ AxisFinishedFloat(sx, fr.x_move * dt, fr.x_target)
            /\ AxisFinishedFloat(sy, fr.y_move * dt, fr.y_target))

\* A faulty priority: a frog being sent home counts as a moving frog.
Frog_update_render_priority_all_movers(b, f) ==
  LET fr == b.frogs[f]
  IN [b EXCEPT !.frogs[f].render_priority =
        fr.layer + fr.render_priority_offset
        + (IF Frog_is_moving(fr) THEN 100 ELSE 0)]

Frog_update_render_priority(b, f) ==
  LET fr == b.frogs[f]
  IN [b EXCEPT !.frogs[f].render_priority =
        fr.layer + fr.render_priority_offset
        + (IF Frog_is_moving(fr) /\ ~fr.is_being_sent_home THEN 100 ELSE 0)]

RECURSIVE UpdatePriorities(_, _)
UpdatePriorities(b, i) ==
  IF i > Len(b.frogs) THEN b
  ELSE UpdatePriorities(Frog_update_render_priority(b, i), i + 1)

RECURSIVE SortedFrogs(_, _)
\* sorted(self._frogs, key=render_priority), for the priorities in keys:
\* stable, so frogs of one priority keep the registry order.
SortedFrogs(b, keys) ==
  IF keys = {} THEN << >>
  ELSE LET lowest == CHOOSE p \in keys : \A q \in keys : p <= q
       IN SelectSeq([i \in 1..Len(b.frogs) |-> i],
                    LAMBDA i : b.frogs[i].render_priority = lowest)
          \o SortedFrogs(b, keys \ {lowest})

RECURSIVE RenderAll(_, _, _, _)
\* for frog in sorted_frogs: frog.render(dt)
RenderAll(b, order, i, dt) ==
  IF i > Len(order) THEN b
  ELSE RenderAll(Frog_update_coords(b, order[i], dt), order, i + 1, dt)

\* render_frogs, the render priorities updated.
Board_render_sorted(b, dt) ==
  RenderAll(b,
            SortedFrogs(b, {b.frogs[i].render_priority :
                              i \in 1..Len(b.frogs)}),
            1, dt)

Board_render_frogs(b, dt) == Board_render_sorted(UpdatePriorities(b, 1), dt)

(***************************************************************************)
(* Die                                                                     *)
(***************************************************************************)
\* A faulty draw: the face the die shows is not removed.
Die_possible_states_any(die) == 1..6

\* Die._update_state: the faces random.choice draws from.
Die_possible_states(die) == (1..6) \ {die.state}

\* Die.start_roll, with the face random.choice returned.
Die_start_roll(die, face) ==
  [die EXCEPT !.state = face, !.timer = Timer_start(DIE_SPEED)]

Die_update(die, face) ==
  IF Timer_is_done(die.timer) THEN Die_start_roll(die, face) ELSE die

Die_stop_roll(die) == [die EXCEPT !.timer = Timer_stop]

\* Die.__init__ with the face random.randint returned.
Die_init(face) == [state |-> face, timer |-> STOPPED, use_count |-> 0]

(***************************************************************************)
(* The window: the places a mouse button can be released                   *)
(***************************************************************************)
\* draw_button(1050, 385, 100, 50, ...) and draw_button(110, 585, 100, 50, ...)
RollButtonRect == [x |-> 1050, y |-> 385, w |-> 100, h |-> 50]
OkButtonRect == [x |-> 110, y |-> 585, w |-> 100, h |-> 50]
\* _draw_die(973, 260, die1) and _draw_die(1126, 260, die2); the size of the
\* die images is the assets', of which only the top-left pixel is used here.
Die1Rect == [x |-> 973, y |-> 260, w |-> 1, h |-> 1]
Die2Rect == [x |-> 1126, y |-> 260, w |-> 1, h |-> 1]

\* pygame.Rect.collidepoint
collidepoint(rect, pos) ==
  /\ rect.x <= pos[1] /\ pos[1] < rect.x + rect.w
  /\ rect.y <= pos[2] /\ pos[2] < rect.y + rect.h

\* Window.draw_frog: the box around the circle drawn at (int(x), int(y)).
Frog_collision_rect(fr) ==
  [x |-> (fr.x \div 1000) - DISPLAY_RADIUS,
   y |-> (fr.y \div 1000) - DISPLAY_RADIUS,
   w |-> 2 * DISPLAY_RADIUS, h |-> 2 * DISPLAY_RADIUS]

RollPoint == <<1100, 410>>
OkPoint == <<160, 610>>
Die1Point == <<973, 260>>
Die2Point == <<1126, 260>>
NowherePoint == <<5, 5>>

(***************************************************************************)
(* Game: the handlers of a mouse-button-up event                           *)
(***************************************************************************)
SelectedDie(g) == IF g.selected_die = 1 THEN g.die1 ELSE g.die2

\* A faulty commit: the die stays selected.
Game_commit_move_keeps_selection(g, i) ==
  [g EXCEPT
     !.die1.use_count = IF g.selected_die = 1 THEN @ + 1 ELSE @,
     !.die2.use_count = IF g.selected_die = 2 THEN @ + 1 ELSE @,
     !.board = Frog_stepwise_move(@, i, SelectedDie(g).state),
     !.move_state = "DURING_FROG_MOVEMENT",
     !.moves = @ + 1]

\* A faulty commit: the use of the die is not counted.
Game_commit_move_uses_no_die(g, i) ==
  [g EXCEPT
     !.board = Frog_stepwise_move(@, i, SelectedDie(g).state),
     !.selected_die = 0,
     !.move_state = "DURING_FROG_MOVEMENT",
     !.moves = @ + 1]

\* The committing branch of _handle_potential_frog_click, for frog i.
Game_commit_move(g, i) ==
  [g EXCEPT
     !.die1.use_count = IF g.selected_die = 1 THEN @ + 1 ELSE @,
     !.die2.use_count = IF g.selected_die = 2 THEN @ + 1 ELSE @,
     !.board = Frog_stepwise_move(@, i, SelectedDie(g).state),
     !.selected_die = 0,
     !.move_state = "DURING_FROG_MOVEMENT",
     !.moves = @ + 1]

\* A faulty rejection: it also drops the selection.
Game_reject_move_drops_selection(g) ==
  [g EXCEPT !.move_state = "BEFORE_FROG_ERROR", !.selected_die = 0]

\* The rejecting branch of _handle_potential_frog_click.
Game_reject_move(g) == [g EXCEPT !.move_state = "BEFORE_FROG_ERROR"]

RECURSIVE Game_handle_potential_frog_click(_, _, _)
\* for frog in self._frogs, from the i-th on
Game_handle_potential_frog_click(g, pos, i) ==
  IF i > Len(g.board.frogs) \/ g.board.error # "" THEN g
  ELSE LET fr == g.board.frogs[i]
       IN IF /\ ~Frog_is_moving(fr)
             /\ collidepoint(Frog_collision_rect(fr), pos)
             /\ Frog_is_on_top(g.board, i)
          THEN IF g.selected_die = 0
               THEN [g EXCEPT !.board = Raise(@, "AttributeError")]
               ELSE IF /\ fr.color = g.rolling_player
                       /\ Frog_can_make_legal_leap(g.board, i,
                                                   SelectedDie(g).state)
               THEN Game_commit_move(g, i)
               ELSE Game_handle_potential_frog_click(
                      Game_reject_move(g), pos, i + 1)
          ELSE Game_handle_potential_frog_click(g, pos, i + 1)

\* A faulty condition: doubles does not give a die its second use.
DieUsable_unused_only(g, die) == die.use_count = 0

\* A faulty condition: under doubles a die used twice is still usable.
DieUsable_thrice(g, die) ==
  die.use_count = 0 \/ (g.doubles /\ die.use_count <= 2)

\* The condition under which a click on a die selects it.
DieUsable(g, die) ==
  die.use_count = 0 \/ (g.doubles /\ die.use_count = 1)

\* A faulty selection: a used die can be selected again.
Game_select_die_any(g, pos) ==
  IF g.move_state \in {"BEFORE_DIE", "BEFORE_FROG", "BEFORE_FROG_ERROR"}
  THEN IF collidepoint(Die1Rect, pos)
       THEN [g EXCEPT !.move_state = "BEFORE_FROG", !.selected_die = 1]
       ELSE IF collidepoint(Die2Rect, pos)
       THEN [g EXCEPT !.move_state = "BEFORE_FROG", !.selected_die = 2]
       ELSE g
  ELSE g

\* A faulty selection: the die is selected but the move state stays as it
\* was.
Game_select_die_keeps_move_state(g, pos) ==
  IF g.move_state \in {"BEFORE_DIE", "BEFORE_FROG", "BEFORE_FROG_ERROR"}
  THEN IF collidepoint(Die1Rect, pos) /\ DieUsable(g, g.die1)
       THEN [g EXCEPT !.selected_die = 1]
       ELSE IF collidepoint(Die2Rect, pos) /\ DieUsable(g, g.die2)
       THEN [g EXCEPT !.selected_die = 2]
       ELSE g
  ELSE g

\* The first part of _handle_mouse_up_move_stage: a click on a die.
Game_select_die(g, pos) ==
  IF g.move_state \in {"BEFORE_DIE", "BEFORE_FROG", "BEFORE_FROG_ERROR"}
  THEN IF collidepoint(Die1Rect, pos) /\ DieUsable(g, g.die1)
       THEN [g EXCEPT !.move_state = "BEFORE_FROG", !.selected_die = 1]
       ELSE IF collidepoint(Die2Rect, pos) /\ DieUsable(g, g.die2)
       THEN [g EXCEPT !.move_state = "BEFORE_FROG", !.selected_die = 2]
       ELSE g
  ELSE g

Game_handle_mouse_up_move_stage(g, pos) ==
  LET g1 == Game_select_die(g, pos)
  IN IF g1.move_state \in {"BEFORE_FROG", "BEFORE_FROG_ERROR"}
     THEN Game_handle_potential_frog_click(g1, pos, 1)
     ELSE g1

\* _handle_mouse_up in SETUP; face1 is the face random.choice returns should
\* the event start a roll.
Game_press_roll_setup(g, pos, face1) ==
  IF g.roll_button /\ collidepoint(RollButtonRect, pos)
  THEN IF g.roll_state = "BEFORE_ROLL"
       THEN [g EXCEPT !.die1 = Die_start_roll(@, face1),
                      !.roll_state = "DURING_ROLL"]
       ELSE IF g.roll_state = "DURING_ROLL"
       THEN [g EXCEPT !.die1 = Die_stop_roll(@),
                      !.roll_state = "AFTER_ROLL"]
       ELSE g
  ELSE g

\* A faulty OK button: the rolling player is not reset.
Game_press_ok_keeps_player(g, pos) ==
  IF g.ok_button /\ collidepoint(OkButtonRect, pos)
  THEN [g EXCEPT !.roll_state = "BEFORE_ROLL", !.state = "SETUP"]
  ELSE g

\* _handle_mouse_up in SETUP_TIE.
Game_press_ok(g, pos) ==
  IF g.ok_button /\ collidepoint(OkButtonRect, pos)
  THEN [g EXCEPT !.rolling_player = "red",
                 !.roll_state = "BEFORE_ROLL",
                 !.state = "SETUP"]
  ELSE g

\* A faulty roll button: the click that stops the dice also enters the move
\* stage.
Game_press_roll_main_enters_move(g, pos, face1, face2) ==
  IF g.roll_button /\ collidepoint(RollButtonRect, pos)
  THEN IF g.roll_state = "BEFORE_ROLL"
       THEN [g EXCEPT !.die1 = Die_start_roll(@, face1),
                      !.die2 = Die_start_roll(@, face2),
                      !.roll_state = "DURING_ROLL"]
       ELSE IF g.roll_state = "DURING_ROLL"
       THEN [g EXCEPT !.die1 = Die_stop_roll(@),
                      !.die2 = Die_stop_roll(@),
                      !.roll_state = "AFTER_ROLL",
                      !.has_rolled_before = TRUE,
                      !.turn_stage = "MOVE",
                      !.move_state = "BEFORE_DIE",
                      !.doubles = (g.die1.state = g.die2.state)]
       ELSE g
  ELSE g

\* A faulty roll button: a click after the roll starts the dice again.
Game_press_roll_main_rolls_again(g, pos, face1, face2) ==
  IF g.roll_button /\ collidepoint(RollButtonRect, pos)
  THEN IF g.roll_state \in {"BEFORE_ROLL", "AFTER_ROLL"}
       THEN [g EXCEPT !.die1 = Die_start_roll(@, face1),
                      !.die2 = Die_start_roll(@, face2),
                      !.roll_state = "DURING_ROLL"]
       ELSE IF g.roll_state = "DURING_ROLL"
       THEN [g EXCEPT !.die1 = Die_stop_roll(@),
                      !.die2 = Die_stop_roll(@),
                      !.roll_state = "AFTER_ROLL"]
       ELSE g
  ELSE g

\* _handle_mouse_up in MAIN_GAME: the roll button.
Game_press_roll_main(g, pos, face1, face2) ==
  IF g.roll_button /\ collidepoint(RollButtonRect, pos)
  THEN IF g.roll_state = "BEFORE_ROLL"
       THEN [g EXCEPT !.die1 = Die_start_roll(@, face1),
                      !.die2 = Die_start_roll(@, face2),
                      !.roll_state = "DURING_ROLL"]
       ELSE IF g.roll_state = "DURING_ROLL"
       THEN [g EXCEPT !.die1 = Die_stop_roll(@),
                      !.die2 = Die_stop_roll(@),
                      !.roll_state = "AFTER_ROLL"]
       ELSE g
  ELSE g

\* _handle_mouse_up with the mouse at pos; face1 and face2 are the faces
\* random.choice returns should this event start a roll.
Game_handle_mouse_up(g, pos, face1, face2) ==
  IF g.state = "SETUP" THEN Game_press_roll_setup(g, pos, face1)
  ELSE IF g.state = "SETUP_TIE" THEN Game_press_ok(g, pos)
  ELSE IF g.state = "MAIN_GAME"
  THEN LET g1 == Game_press_roll_main(g, pos, face1, face2)
       IN IF g1.turn_stage = "MOVE"
          THEN Game_handle_mouse_up_move_stage(g1, pos)
          ELSE g1
  ELSE g

RECURSIVE Game_handle_events(_, _, _, _, _)
\* _handle_events on a queue of n mouse-button-up events, all read with the
\* mouse at pos (pygame.mouse.get_pos() is the position of the last pump).
Game_handle_events(g, pos, n, face1, face2) ==
  IF n = 0 \/ g.board.error # "" THEN g
  ELSE Game_handle_events(Game_handle_mouse_up(g, pos, face1, face2),
                          pos, n - 1, face1, face2)

RECURSIVE Game_handle_queue_to_the_end(_, _, _, _, _, _)
\* A faulty _handle_events: a quit event does not end the handling.
Game_handle_queue_to_the_end(g, pos, queue, i, face1, face2) ==
  IF i > Len(queue) \/ g.board.error # ""
  THEN [g |-> g, exit |-> \E j \in 1..Len(queue) : queue[j] = "QUIT"]
  ELSE IF queue[i] = "MOUSEBUTTONUP"
  THEN Game_handle_queue_to_the_end(
         Game_handle_mouse_up(g, pos, face1, face2),
         pos, queue, i + 1, face1, face2)
  ELSE Game_handle_queue_to_the_end(g, pos, queue, i + 1, face1, face2)

RECURSIVE Game_handle_queue(_, _, _, _, _, _)
\* _handle_events on the queue pygame.event.get() returns, from its i-th
\* event on, all read with the mouse at pos: the game after it and the
\* value returned.
Game_handle_queue(g, pos, queue, i, face1, face2) ==
  IF i > Len(queue) \/ g.board.error # "" THEN [g |-> g, exit |-> FALSE]
  ELSE IF queue[i] = "QUIT" THEN [g |-> g, exit |-> TRUE]
  ELSE IF queue[i] = "MOUSEBUTTONUP"
  THEN Game_handle_queue(Game_handle_mouse_up(g, pos, face1, face2),
                         pos, queue, i + 1, face1, face2)
  ELSE Game_handle_queue(g, pos, queue, i + 1, face1, face2)

(***************************************************************************)
(* Game: the per-state part of a tick                                      *)
(***************************************************************************)
FirstPathHead ==
  <<"sw", "1", "2", "3", "4", "5", "6", "7", "8", "9", "10", "11", "12",
    "13", "14", "15", "16", "17", "18", "19">>
SecondPathHead ==
  <<"se", "1", "2", "3", "4", "5", "6", "7", "8", "9", "10", "11", "12",
    "13", "14", "15", "16", "17", "18", "19">>
RedPathTail == <<"20r", "21r", "22r", "23r", "24r", "25r", "26", "er">>
PurplePathTail == <<"20p", "21p", "22p", "23p", "24p", "25p", "26", "ep">>

PathTail(player) == IF player = "red" THEN RedPathTail ELSE PurplePathTail

RECURSIVE AddFrogPairs(_, _, _, _, _, _)
\* for _ in range(n): a frog of the first player on "sw", then one of the
\* second player on "se"
AddFrogPairs(b, n, first_player, second_player, first_path, second_path) ==
  IF n = 0 THEN b
  ELSE AddFrogPairs(
         Frog_init(Frog_init(b, first_player, "sw", first_path),
                   second_player, "se", second_path),
         n - 1, first_player, second_player, first_path, second_path)

RECURSIVE AddFrogList(_, _, _)
\* the frogs created one by one: <<color, space, path>> each
AddFrogList(b, list, i) ==
  IF i > Len(list) THEN b
  ELSE AddFrogList(Frog_init(b, list[i][1], list[i][2], list[i][3]),
                   list, i + 1)

\* A faulty placement: only the frogs of sw and se.
Game_add_frogs_roots_only(b, first_player, second_player) ==
  AddFrogPairs(b, 6, first_player, second_player,
               FirstPathHead \o PathTail(first_player),
               SecondPathHead \o PathTail(second_player))

\* _add_frogs
Game_add_frogs(b, first_player, second_player) ==
  LET first_path == FirstPathHead \o PathTail(first_player)
      second_path == SecondPathHead \o PathTail(second_player)
      p1 == <<first_player, first_path>>
      p2 == <<second_player, second_path>>
      F(p, space) == <<p[1], space, p[2]>>
  IN AddFrogList(
       AddFrogPairs(b, 6, first_player, second_player,
                    first_path, second_path),
       <<F(p1, "5"), F(p2, "5"), F(p1, "5"), F(p2, "5"),
         F(p2, "10"), F(p1, "10"), F(p2, "10"), F(p1, "10"),
         F(p1, "15"), F(p2, "15"), F(p1, "15"), F(p2, "15")>>, 1)

\* A faulty decision: a tie counts as a win of red.
Game_setup_decide_tie_to_red(g) ==
  IF g.rolls.red >= g.rolls.purple
  THEN [g EXCEPT !.rolling_player = "red",
                 !.setup_timer = Timer_start(SETUP_WAIT),
                 !.state = "SETUP_WAITING"]
  ELSE [g EXCEPT !.rolling_player = "purple",
                 !.setup_timer = Timer_start(SETUP_WAIT),
                 !.state = "SETUP_WAITING"]

\* _tick_setup once both players have rolled (rolling_player is "done").
Game_setup_decide(g) ==
  IF g.rolls.red = g.rolls.purple
  THEN [g EXCEPT !.state = "SETUP_TIE"]
  ELSE IF g.rolls.red > g.rolls.purple
  THEN [g EXCEPT !.rolling_player = "red",
                 !.setup_timer = Timer_start(SETUP_WAIT),
                 !.state = "SETUP_WAITING"]
  ELSE [g EXCEPT !.rolling_player = "purple",
                 !.setup_timer = Timer_start(SETUP_WAIT),
                 !.state = "SETUP_WAITING"]

Game_tick_setup(g, face1) ==
  LET g1 == [g EXCEPT !.die1 = Die_update(@, face1)]
  IN IF g1.rolling_player = "red"
     THEN IF g1.roll_state \in {"BEFORE_ROLL", "DURING_ROLL"}
          THEN [g1 EXCEPT !.roll_button = TRUE]
          ELSE [g1 EXCEPT !.has_rolled_before = TRUE,
                          !.rolls.red = g1.die1.state,
                          !.roll_state = "BEFORE_ROLL",
                          !.rolling_player = "purple"]
     ELSE IF g1.rolling_player = "purple"
     THEN IF g1.roll_state \in {"BEFORE_ROLL", "DURING_ROLL"}
          THEN [g1 EXCEPT !.roll_button = TRUE]
          ELSE [g1 EXCEPT !.rolls.purple = g1.die1.state,
                          !.rolling_player = "done"]
     ELSE Game_setup_decide(g1)

Game_tick_setup_tie(g, face1) ==
  [g EXCEPT !.die1 = Die_update(@, face1), !.ok_button = TRUE]

\* A faulty pause: the frogs are placed without waiting for the timer.
Game_tick_setup_waiting_no_pause(g, face1) ==
  [g EXCEPT
     !.die1 = Die_update(@, face1),
     !.setup_timer = Timer_stop,
     !.has_rolled_before = FALSE,
     !.board = IF g.rolling_player = "red"
               THEN Game_add_frogs(@, "red", "purple")
               ELSE Game_add_frogs(@, "purple", "red"),
     !.state = "MAIN_GAME",
     !.turn_stage = "ROLL",
     !.roll_state = "BEFORE_ROLL"]

\* _tick_setup_waiting
Game_tick_setup_waiting(g, face1) ==
  LET g1 == [g EXCEPT !.die1 = Die_update(@, face1)]
  IN IF Timer_is_done(g1.setup_timer)
     THEN [g1 EXCEPT
             !.setup_timer = Timer_stop,
             !.has_rolled_before = FALSE,
             !.board = IF g1.rolling_player = "red"
                       THEN Game_add_frogs(@, "red", "purple")
                       ELSE Game_add_frogs(@, "purple", "red"),
             !.state = "MAIN_GAME",
             !.turn_stage = "ROLL",
             !.roll_state = "BEFORE_ROLL"]
     ELSE g1

\* A faulty roll stage: doubles keeps the value of the roll before.
Game_tick_main_game_roll_stale_doubles(g) ==
  IF g.roll_state \in {"BEFORE_ROLL", "DURING_ROLL"}
  THEN [g EXCEPT !.roll_button = TRUE]
  ELSE [g EXCEPT !.has_rolled_before = TRUE,
                 !.turn_stage = "MOVE",
                 !.move_state = "BEFORE_DIE"]

\* A faulty roll stage: the turn passes to the other player when the move
\* stage is entered.
Game_tick_main_game_roll_passes_turn(g) ==
  IF g.roll_state \in {"BEFORE_ROLL", "DURING_ROLL"}
  THEN [g EXCEPT !.roll_button = TRUE]
  ELSE [g EXCEPT !.has_rolled_before = TRUE,
                 !.turn_stage = "MOVE",
                 !.move_state = "BEFORE_DIE",
                 !.rolling_player = IF @ = "red" THEN "purple" ELSE "red",
                 !.doubles = (g.die1.state = g.die2.state)]

\* _tick_main_game_roll
Game_tick_main_game_roll(g) ==
  IF g.roll_state \in {"BEFORE_ROLL", "DURING_ROLL"}
  THEN [g EXCEPT !.roll_button = TRUE]
  ELSE [g EXCEPT !.has_rolled_before = TRUE,
                 !.turn_stage = "MOVE",
                 !.move_state = "BEFORE_DIE",
                 !.doubles = (g.die1.state = g.die2.state)]

\* A faulty end of turn: one used die is enough.
Game_tick_move_ends_after_one_die(g) ==
  IF \E i \in 1..Len(g.board.frogs) : Frog_is_moving(g.board.frogs[i])
  THEN g
  ELSE IF g.die1.use_count + g.die2.use_count = 4
          \/ (~g.doubles /\ g.die1.use_count + g.die2.use_count >= 1)
  THEN [g EXCEPT !.die1.use_count = 0,
                 !.die2.use_count = 0,
                 !.turn_stage = "ROLL",
                 !.rolling_player = IF @ = "red" THEN "purple" ELSE "red",
                 !.roll_state = "BEFORE_ROLL"]
  ELSE [g EXCEPT !.move_state = "BEFORE_DIE"]

\* A faulty wait: only the frog on its stepwise way is waited for.
Game_tick_move_waits_for_stepwise_only(g) ==
  IF \E i \in 1..Len(g.board.frogs) :
       Frog_is_moving(g.board.frogs[i]) /\ g.board.frogs[i].stepwise_movement
  THEN g
  ELSE IF \/ g.die1.use_count + g.die2.use_count = 4
          \/ (~g.doubles /\ g.die1.use_count + g.die2.use_count = 2)
  THEN [g EXCEPT !.die1.use_count = 0,
                 !.die2.use_count = 0,
                 !.turn_stage = "ROLL",
                 !.rolling_player = IF @ = "red" THEN "purple" ELSE "red",
                 !.roll_state = "BEFORE_ROLL"]
  ELSE [g EXCEPT !.move_state = "BEFORE_DIE"]

\* A faulty wait: the tick does not look whether a frog is still moving.
Game_tick_move_never_waits(g) ==
  IF \/ g.die1.use_count + g.die2.use_count = 4
     \/ (~g.doubles /\ g.die1.use_count + g.die2.use_count = 2)
  THEN [g EXCEPT !.die1.use_count = 0,
                 !.die2.use_count = 0,
                 !.turn_stage = "ROLL",
                 !.rolling_player = IF @ = "red" THEN "purple" ELSE "red",
                 !.roll_state = "BEFORE_ROLL"]
  ELSE [g EXCEPT !.move_state = "BEFORE_DIE"]

\* _tick_move_during_frog_movement
Game_tick_move_during_frog_movement(g) ==
  IF \E i \in 1..Len(g.board.frogs) : Frog_is_moving(g.board.frogs[i])
  THEN g
  ELSE IF \/ g.die1.use_count + g.die2.use_count = 4
          \/ (~g.doubles /\ g.die1.use_count + g.die2.use_count = 2)
  THEN [g EXCEPT !.die1.use_count = 0,
                 !.die2.use_count = 0,
                 !.turn_stage = "ROLL",
                 !.rolling_player = IF @ = "red" THEN "purple" ELSE "red",
                 !.roll_state = "BEFORE_ROLL"]
  ELSE [g EXCEPT !.move_state = "BEFORE_DIE"]

\* A faulty move stage: the tick never looks whether the frogs have come to
\* rest.
Game_tick_main_game_move_never_ends(g) == g

Game_tick_main_game_move(g) ==
  IF g.move_state = "DURING_FROG_MOVEMENT"
  THEN Game_tick_move_during_frog_movement(g)
  ELSE g

Game_tick_main_game(g, face1, face2) ==
  LET g1 == [g EXCEPT !.die1 = Die_update(@, face1),
                      !.die2 = Die_update(@, face2)]
  IN IF g1.turn_stage = "ROLL" THEN Game_tick_main_game_roll(g1)
     ELSE Game_tick_main_game_move(g1)

\* Game.tick up to render_frogs, dt milliseconds after the tick before.
Game_tick_render(g, dt) ==
  [g EXCEPT !.setup_timer = Timer_elapse(@, dt),
            !.die1.timer = Timer_elapse(@, dt),
            !.die2.timer = Timer_elapse(@, dt),
            !.board = Board_render_frogs(@, dt)]

\* Game.tick from render_frogs to the handling of the events.
Game_tick_state(g, face1, face2) ==
  IF g.board.error # "" THEN g
  ELSE IF g.state = "SETUP" THEN Game_tick_setup(g, face1)
  ELSE IF g.state = "SETUP_TIE" THEN Game_tick_setup_tie(g, face1)
  ELSE IF g.state = "SETUP_WAITING" THEN Game_tick_setup_waiting(g, face1)
  ELSE Game_tick_main_game(g, face1, face2)

\* The part of Game.tick before the events are handled.
Game_tick_update(g, dt, face1, face2) ==
  Game_tick_state(Game_tick_render(g, dt), face1, face2)

\* Game.tick: the update, then the n events queued before the first quit
\* event (or all n if there is none).
Game_tick(g, dt, pos, n, face1, face2) ==
  Game_handle_events(Game_tick_update(g, dt, face1, face2),
                     pos, n, face1, face2)

(***************************************************************************)
(* The state machine                                                       *)
(***************************************************************************)
\* The Game object as one value.
Cur ==
  [state |-> state, turn_stage |-> turn_stage, roll_state |-> roll_state,
   move_state |-> move_state, rolling_player |-> rolling_player,
   has_rolled_before |-> has_rolled_before, doubles |-> doubles,
   selected_die |-> selected_die, rolls |-> rolls,
   setup_timer |-> setup_timer, die1 |-> die1, die2 |-> die2,
   board |-> board, roll_button |-> roll_button, ok_button |-> ok_button,
   moves |-> moves]

\* No method of a game piece has been called from outside the game.
NoCall == [op |-> "", value |-> 0]

\* Game.__init__, the dice and the board apart.  rolls = {} is the record
\* of two absent (0) entries.
Game_init ==
  /\ state = "SETUP"
  /\ turn_stage = "ROLL"
  /\ roll_state = "BEFORE_ROLL"
  /\ move_state = "BEFORE_DIE"
  /\ rolling_player = "red"
  /\ has_rolled_before = FALSE
  /\ doubles = FALSE
  /\ selected_die = 0
  /\ rolls = [red |-> 0, purple |-> 0]
  /\ setup_timer = STOPPED
  /\ roll_button = FALSE
  /\ ok_button = FALSE
  /\ game_exit = FALSE
  /\ moves = 0

\* The fields of a timer called on its own.
TimerFields == <<timer, ticks, running>>

\* Timer(): not started, at the start of pygame's clock.
Timer_init == timer = STOPPED /\ ticks = 0 /\ running = FALSE

\* Game.__init__; random.randint draws the two first faces.
Init ==
  /\ Game_init
  /\ Timer_init
  /\ \E face \in RandomFaces : die1 = Die_init(face)
  /\ \E face \in RandomFaces : die2 = Die_init(face)
  /\ board = Board_init
  /\ returned = NoCall

\* The frame times a tick may take.
Dts == {DtShort, DtLong}

\* The faces random.choice may return for a die.
Draws(die) == Die_possible_states(die) \cap RandomFaces

\* The stacks the players click on.
ClickSpaces == {"sw", "se", "1", "5"}

\* The frogs whose centre the mouse is released on: the highest and the
\* lowest frog of every stack clicked on.
ClickFrogs(b) ==
  {f \in 1..Len(b.frogs) :
     \E s \in ClickSpaces :
       /\ Len(b.spaces[s]) > 0
       /\ f \in {b.spaces[s][1], b.spaces[s][Len(b.spaces[s])]}}

FrogPoint(fr) == <<fr.x \div 1000, fr.y \div 1000>>

\* The places the mouse is released at in a tick.
ClickPoints(g) ==
  {RollPoint, OkPoint, Die1Point, Die2Point, NowherePoint}
  \cup (IF g.moves < MaxMoves
        THEN {FrogPoint(g.board.frogs[f]) : f \in ClickFrogs(g.board)}
        ELSE {})

\* The mouse-button-up events of a tick: n of them, with the mouse at pos.
Clicks(g) ==
  {<<NowherePoint, 0>>} \cup (ClickPoints(g) \X (1..MaxClicks))

\* One iteration of Game.run: tick(), which returns whether to quit.  The
\* event queue holds the clicks and then a quit event or none.
Tick ==
  /\ ~game_exit
  /\ board.error = ""
  /\ \E dt \in Dts, face1 \in Draws(die1), face2 \in Draws(die2) :
       \E g \in {Game_tick_update(Cur, dt, face1, face2)} :
         \E click \in Clicks(g) :
           \E h \in {Game_handle_events(g, click[1], click[2], face1, face2)} :
               /\ state' = h.state
               /\ turn_stage' = h.turn_stage
               /\ roll_state' = h.roll_state
               /\ move_state' = h.move_state
               /\ rolling_player' = h.rolling_player
               /\ has_rolled_before' = h.has_rolled_before
               /\ doubles' = h.doubles
               /\ selected_die' = h.selected_die
               /\ rolls' = h.rolls
               /\ setup_timer' = h.setup_timer
               /\ die1' = h.die1
               /\ die2' = h.die2
               /\ board' = h.board
               /\ roll_button' = h.roll_button
               /\ ok_button' = h.ok_button
               /\ moves' = h.moves
               /\ returned' = returned
               /\ UNCHANGED TimerFields
               /\ \E quit \in BOOLEAN :
                    game_exit' = (quit /\ h.board.error = "")

TickSetup == state = "SETUP" /\ Tick
TickSetupTie == state = "SETUP_TIE" /\ Tick
TickSetupWaiting == state = "SETUP_WAITING" /\ Tick
TickMainGameRoll == state = "MAIN_GAME" /\ turn_stage = "ROLL" /\ Tick
TickMainGameMove == state = "MAIN_GAME" /\ turn_stage = "MOVE" /\ Tick

Next ==
  \/ TickSetup
  \/ TickSetupTie
  \/ TickSetupWaiting
  \/ TickMainGameRoll
  \/ TickMainGameMove

Spec == Init /\ [][Next]_vars

(***************************************************************************)
(***************************************************************************)
(* The game under the scheduling of Game.run: tick is called again as long *)
(* as it has not returned true and no exception has ended the program.     *)
(* Each tick handles at most one mouse-button-up event.  ticks is the      *)
(* parity of the number of frames pygame's clock has counted, so that a    *)
(* tick that changes nothing else in the game is a step all the same.      *)
(***************************************************************************)
\* The number of moves the players commit in one fair run.
MaxFairMoves == 2

\* The mouse-button-up event of a tick, if any.
FairClicks(g) ==
  {<<NowherePoint, 0>>}
  \cup (({RollPoint, OkPoint, Die1Point, Die2Point}
         \cup (IF g.moves < MaxFairMoves
               THEN {FrogPoint(g.board.frogs[f]) : f \in ClickFrogs(g.board)}
               ELSE {})) \X {1})

\* One iteration of Game.run.
FairTick ==
  /\ ~game_exit
  /\ board.error = ""
  /\ \E dt \in Dts, face1 \in Draws(die1), face2 \in Draws(die2) :
       \E g \in {Game_tick_update(Cur, dt, face1, face2)} :
         \E click \in FairClicks(g) :
           \E h \in {Game_handle_events(g, click[1], click[2], face1, face2)} :
               /\ state' = h.state
               /\ turn_stage' = h.turn_stage
               /\ roll_state' = h.roll_state
               /\ move_state' = h.move_state
               /\ rolling_player' = h.rolling_player
               /\ has_rolled_before' = h.has_rolled_before
               /\ doubles' = h.doubles
               /\ selected_die' = h.selected_die
               /\ rolls' = h.rolls
               /\ setup_timer' = h.setup_timer
               /\ die1' = h.die1
               /\ die2' = h.die2
               /\ board' = h.board
               /\ roll_button' = h.roll_button
               /\ ok_button' = h.ok_button
               /\ moves' = h.moves
               /\ returned' = returned
               /\ ticks' = 1 - ticks
               /\ UNCHANGED <<timer, running>>
               /\ \E quit \in BOOLEAN :
                    game_exit' = (quit /\ h.board.error = "")

FairNext == FairTick

\* The frame of a tick: every tick counts one, and one can be counted as
\* long as tick has not returned true and no exception has ended the
\* program.
Frame == ~game_exit /\ board.error = "" /\ ticks' = 1 - ticks

\* Game.run: while not game_exit, tick is called again.
FairSpec == Init /\ [][FairNext]_vars /\ WF_ticks(Frame)

(* Longer games, played with few choices: each tick takes the long frame   *)
(* time and handles at most one mouse-button-up event, on a button, on a   *)
(* die or on the highest frog of one of a few stacks, and the window is    *)
(* not closed.  Every run of this game is a run of the game above with     *)
(* more moves.                                                             *)
(***************************************************************************)
\* The number of moves the players commit in one long run.
MaxLongMoves == 6

\* The stacks the players click on in a long run.
LongClickSpaces == {"sw", "se", "5", "15", "20p"}

\* The mouse-button-up event of a tick, if any.
LongClicks(g) ==
  {<<NowherePoint, 0>>}
  \cup (({RollPoint, OkPoint, Die1Point, Die2Point}
         \cup (IF g.moves < MaxLongMoves
               THEN {FrogPoint(g.board.frogs[f]) :
                       f \in {e \in 1..Len(g.board.frogs) :
                                /\ g.board.frogs[e].space \in LongClickSpaces
                                /\ Frog_is_on_top(g.board, e)}}
               ELSE {})) \X {1})

\* One iteration of Game.run, tick() returning false.
LongTick ==
  /\ ~game_exit
  /\ board.error = ""
  /\ \E face1 \in Draws(die1), face2 \in Draws(die2) :
       \E g \in {Game_tick_update(Cur, DtLong, face1, face2)} :
         \E click \in LongClicks(g) :
           \E h \in {Game_handle_events(g, click[1], click[2], face1, face2)} :
               /\ state' = h.state
               /\ turn_stage' = h.turn_stage
               /\ roll_state' = h.roll_state
               /\ move_state' = h.move_state
               /\ rolling_player' = h.rolling_player
               /\ has_rolled_before' = h.has_rolled_before
               /\ doubles' = h.doubles
               /\ selected_die' = h.selected_die
               /\ rolls' = h.rolls
               /\ setup_timer' = h.setup_timer
               /\ die1' = h.die1
               /\ die2' = h.die2
               /\ board' = h.board
               /\ roll_button' = h.roll_button
               /\ ok_button' = h.ok_button
               /\ moves' = h.moves
               /\ UNCHANGED <<game_exit, returned, TimerFields>>

LongNext == LongTick

LongSpec == Init /\ [][LongNext]_vars

(***************************************************************************)

(* The game with the event queue of each tick in full: any events, a quit  *)
(* event anywhere among them.  The mouse is released on the roll button or *)
(* nowhere, so no frog moves.  returned keeps the queue the tick was given *)
(* and the place of the mouse.                                             *)
(***************************************************************************)
\* The number of events queued in one tick.
MaxEvents == 3

\* The types of the events; those that _handle_events passes over are left
\* out of the queues.
EventTypes == {"QUIT", "MOUSEBUTTONUP"}

\* The queues pygame.event.get() may return.
Queues == UNION {[1..n -> EventTypes] : n \in 0..MaxEvents}

\* The places the mouse is released at.
QueuePoints == {RollPoint, NowherePoint}

\* One iteration of Game.run: tick(), whose value run keeps in game_exit.
TickQueue ==
  /\ ~game_exit
  /\ board.error = ""
  /\ \E dt \in Dts, face1 \in Draws(die1), face2 \in Draws(die2) :
       \E queue \in Queues, pos \in QueuePoints :
         \E h \in {Game_handle_queue(Game_tick_update(Cur, dt, face1, face2),
                                     pos, queue, 1, face1, face2)} :
           /\ state' = h.g.state
           /\ turn_stage' = h.g.turn_stage
           /\ roll_state' = h.g.roll_state
           /\ move_state' = h.g.move_state
           /\ rolling_player' = h.g.rolling_player
           /\ has_rolled_before' = h.g.has_rolled_before
           /\ doubles' = h.g.doubles
           /\ selected_die' = h.g.selected_die
           /\ rolls' = h.g.rolls
           /\ setup_timer' = h.g.setup_timer
           /\ die1' = h.g.die1
           /\ die2' = h.g.die2
           /\ board' = h.g.board
           /\ roll_button' = h.g.roll_button
           /\ ok_button' = h.g.ok_button
           /\ moves' = h.g.moves
           /\ game_exit' = (h.exit /\ h.g.board.error = "")
           /\ returned' = [op |-> "tick", value |-> <<queue, pos>>]
  /\ UNCHANGED TimerFields

QueueNext == TickQueue

QueueSpec == Init /\ [][QueueNext]_vars

(***************************************************************************)
(* The game pieces on their own: frogs created on two neighbouring spaces  *)
(* of a board, and the methods of Space, Frog and Board called on them one *)
(* at a time, as the game calls them: a frog starts a stepwise move only   *)
(* while no frog is moving, from the top of its stack and to a space that  *)
(* can legally take it.  returned holds the name of the last method called *)
(* and what it returned; moves counts the stepwise moves started.          *)
(***************************************************************************)
\* The number of frogs created on the board.
MaxPieces == 4
\* The number of stepwise moves started.
MaxLeaps == 2
\* The longest stepwise move, in spaces.
MaxLeap == 2

\* The spaces the frogs are created on: one of capacity 5 and, next on the
\* paths, the one of capacity 2.
PieceSpaces == {"18", "19"}

\* The path _add_frogs gives a frog when red is the first player.
PiecePath(color) ==
  IF color = "red" THEN FirstPathHead \o RedPathTail
  ELSE SecondPathHead \o PurplePathTail

\* The fields of the game that no method of a game piece touches.
GameFields ==
  <<state, turn_stage, roll_state, move_state, rolling_player,
    has_rolled_before, doubles, selected_die, rolls, setup_timer,
    roll_button, ok_button, game_exit>>

\* Board(): an empty board.
PiecesInit ==
  /\ Game_init
  /\ Timer_init
  /\ die1 = Die_init(1)
  /\ die2 = Die_init(1)
  /\ board = Board_init
  /\ returned = NoCall

\* Frog(color, space, path, board, ...), before any frog has moved: the frog
\* joins the registry and calls add on its space, which returns its layer
\* or raises.
NewFrog ==
  /\ board.error = ""
  /\ moves = 0
  /\ NoFrogMoving(board)
  /\ Len(board.frogs) < MaxPieces
  /\ \E color \in {"red", "purple"}, s \in PieceSpaces :
       /\ board' = Frog_init(board, color, s, PiecePath(color))
       /\ returned' =
            [op |-> "add",
             value |-> Space_add(board, s, Len(board.frogs) + 1).layer]
  /\ UNCHANGED <<GameFields, TimerFields, die1, die2, moves>>

\* space.can_legally_take(frog), called on the stacks the frogs were created
\* on while no frog is moving
CanLegallyTake ==
  /\ board.error = ""
  /\ moves = 0
  /\ NoFrogMoving(board)
  /\ \E f \in 1..Len(board.frogs), s \in PieceSpaces :
       returned' = [op |-> "can_legally_take",
                    value |-> Space_can_legally_take(board, s, f)]
  /\ UNCHANGED <<GameFields, TimerFields, die1, die2, moves, board>>

\* space.send_frogs_home(), called on the stacks the frogs were created on
\* while no frog is moving
SendFrogsHome ==
  /\ board.error = ""
  /\ moves = 0
  /\ NoFrogMoving(board)
  /\ \E s \in PieceSpaces : board' = Space_send_frogs_home(board, s)
  /\ returned' = [op |-> "send_frogs_home", value |-> 0]
  /\ UNCHANGED <<GameFields, TimerFields, die1, die2, moves>>

\* frog.stepwise_move(n), called as _handle_potential_frog_click calls it
StepwiseMove ==
  /\ board.error = ""
  /\ moves < MaxLeaps
  /\ NoFrogMoving(board)
  /\ \E f \in 1..Len(board.frogs), n \in 1..MaxLeap :
       /\ Frog_is_on_top(board, f)
       /\ Frog_can_make_legal_leap(board, f, n)
       /\ board' = Frog_stepwise_move(board, f, n)
       /\ returned' = [op |-> "stepwise_move", value |-> n]
  /\ moves' = moves + 1
  /\ UNCHANGED <<GameFields, TimerFields, die1, die2>>

\* board.render_frogs(dt), called while a frog is moving
RenderFrogs ==
  /\ board.error = ""
  /\ ~NoFrogMoving(board)
  /\ \E dt \in Dts : board' = Board_render_frogs(board, dt)
  /\ returned' = [op |-> "render_frogs", value |-> 0]
  /\ UNCHANGED <<GameFields, TimerFields, die1, die2, moves>>

PiecesNext ==
  \/ NewFrog
  \/ CanLegallyTake
  \/ SendFrogsHome
  \/ StepwiseMove
  \/ RenderFrogs

PiecesSpec == PiecesInit /\ [][PiecesNext]_vars

(***************************************************************************)
(* The board of a game from the starting formation on, the frogs moved as  *)
(* _handle_potential_frog_click moves them: a frog at rest on top of its   *)
(* stack, while no frog is moving, by a leap can_make_legal_leap allows.   *)
(* Either player may move at any time, by any face of a die.               *)
(***************************************************************************)
\* The number of leaps made from the starting formation.
MaxFormationLeaps == 4

\* _add_frogs, for either player going first
FormationInit ==
  /\ Game_init
  /\ Timer_init
  /\ die1 = Die_init(1)
  /\ die2 = Die_init(1)
  /\ \E first_player \in {"red", "purple"} :
       \E second_player \in {"red", "purple"} \ {first_player} :
         board = Game_add_frogs(Board_init, first_player, second_player)
  /\ returned = NoCall

\* frog.can_make_legal_leap(n) and, if it allows, frog.stepwise_move(n);
\* returned keeps the length of the leap made, 0 if it was refused.
LegalLeap ==
  /\ board.error = ""
  /\ moves < MaxFormationLeaps
  /\ NoFrogMoving(board)
  /\ \E f \in 1..Len(board.frogs), n \in RandomFaces :
       /\ Frog_is_on_top(board, f)
       /\ IF Frog_can_make_legal_leap(board, f, n)
          THEN /\ board' = Frog_stepwise_move(board, f, n)
               /\ moves' = moves + 1
               /\ returned' = [op |-> "can_make_legal_leap", value |-> n]
          ELSE /\ UNCHANGED <<board, moves>>
               /\ returned' = [op |-> "can_make_legal_leap", value |-> 0]
  /\ UNCHANGED <<GameFields, TimerFields, die1, die2>>

\* board.render_frogs(dt), called while a frog is moving
FormationFrames ==
  /\ board.error = ""
  /\ ~NoFrogMoving(board)
  /\ board' = Board_render_frogs(board, DtLong)
  /\ returned' = [op |-> "render_frogs", value |-> 0]
  /\ UNCHANGED <<GameFields, TimerFields, die1, die2, moves>>

FormationNext == LegalLeap \/ FormationFrames

FormationSpec == FormationInit /\ [][FormationNext]_vars

(***************************************************************************)

(* The methods of Space and Frog called without the checks the game makes  *)
(* before it calls them: on a frog anywhere in a stack or in none, and     *)
(* for a move of any length.  moves counts these calls.                    *)
(***************************************************************************)
\* The number of calls made on the frogs created.
MaxCalls == 2

\* space.pull_out(frog), for any frog of the board
PullOut ==
  /\ board.error = ""
  /\ moves < MaxCalls
  /\ \E s \in PieceSpaces, f \in 1..Len(board.frogs) :
       /\ board' = Space_pull_out(board, s, f)
       /\ returned' = [op |-> "pull_out", value |-> <<s, f>>]
  /\ moves' = moves + 1
  /\ UNCHANGED <<GameFields, TimerFields, die1, die2>>

\* The lengths of the stepwise moves asked for: from the spaces the frogs
\* are created on, FarLeap spaces reach the end of a path or pass it.
FarLeap == 9
LeapLengths == {1, FarLeap, FarLeap + 1}

\* frog.stepwise_move(n) on any frog at rest, for a move of any length
StepwiseMoveAny ==
  /\ board.error = ""
  /\ moves < MaxCalls
  /\ \E f \in 1..Len(board.frogs), n \in LeapLengths :
       /\ ~Frog_is_moving(board.frogs[f])
       /\ board' = Frog_stepwise_move(board, f, n)
       /\ returned' = [op |-> "stepwise_move", value |-> <<f, n>>]
  /\ moves' = moves + 1
  /\ UNCHANGED <<GameFields, TimerFields, die1, die2>>

\* frog.direct_space_move(space) on any frog at rest, on top of its stack
\* or not
DirectSpaceMove ==
  /\ board.error = ""
  /\ moves < MaxCalls
  /\ \E f \in 1..Len(board.frogs), space \in PieceSpaces :
       /\ ~Frog_is_moving(board.frogs[f])
       /\ board' = Frog_direct_space_move(board, f, space)
       /\ returned' = [op |-> "direct_space_move", value |-> <<f, space>>]
  /\ moves' = moves + 1
  /\ UNCHANGED <<GameFields, TimerFields, die1, die2>>

CallsNext ==
  \/ NewFrog
  \/ PullOut
  \/ StepwiseMoveAny
  \/ DirectSpaceMove
  \/ RenderFrogs

CallsSpec == PiecesInit /\ [][CallsNext]_vars

(***************************************************************************)
(* One direct movement on its own: a frog is created on a space, starts a  *)
(* direct move to another space and update_coords is called on it with     *)
(* one time after the other.  ticks is the sum of the times handed to      *)
(* update_coords since the move started; returned.value keeps the          *)
(* coordinates, in pixels, the frog started from.                          *)
(***************************************************************************)
\* The longest time, in milliseconds, the updates of one movement add up to.
MaxMoveTime == 560

\* The times, in milliseconds, update_coords is called with.
MoveDts == {0, 70, 245}

\* The movements: the space the frog is created on and the space it moves
\* to, straight up, to the right, to the left and askew.
MoveLegs == {<<"sw", "1">>, <<"sw", "se">>, <<"se", "sw">>, <<"se", "1">>}

\* Frog(...) on an empty board and frog.direct_space_move(space)
MoveInit ==
  /\ Game_init
  /\ Timer_init
  /\ die1 = Die_init(1)
  /\ die2 = Die_init(1)
  /\ \E leg \in MoveLegs :
       /\ board = Frog_direct_space_move(
                    Frog_init(Board_init, "red", leg[1], PiecePath("red")),
                    1, leg[2])
       /\ returned = [op |-> "direct_space_move",
                      value |-> <<SpaceX(leg[1]) + BOARD_X,
                                  SpaceY(leg[1]) + BOARD_Y>>]

\* frog.update_coords(dt)
UpdateCoords ==
  /\ board.error = ""
  /\ \E dt \in MoveDts, ex \in RoundingErrors, ey \in RoundingErrors :
       /\ ticks + dt <= MaxMoveTime
       /\ ticks' = ticks + dt
       /\ board' = Frog_update_coords_float(board, 1, dt, ex, ey)
  /\ returned' = [op |-> "update_coords", value |-> returned.value]
  /\ UNCHANGED <<GameFields, die1, die2, moves, timer, running>>

MoveNext == UpdateCoords

MoveSpec == MoveInit /\ [][MoveNext]_vars

(***************************************************************************)
(* The dice on their own: start_roll, update and stop_roll called on two   *)
(* dice one call at a time, the clock moving on between the calls.         *)
(***************************************************************************)
\* Die k of the two.
Die(k) == IF k = 1 THEN die1 ELSE die2

\* Die k becomes d, the other die stays as it is.
SetDie(k, d) ==
  IF k = 1 THEN die1' = d /\ die2' = die2 ELSE die2' = d /\ die1' = die1

\* Die() twice; random.randint draws each first face.
DiceInit ==
  /\ Game_init
  /\ Timer_init
  /\ \E face \in 1..6 : die1 = Die_init(face)
  /\ \E face \in 1..6 : die2 = Die_init(face)
  /\ board = Board_init
  /\ returned = NoCall

\* die.start_roll()
StartRoll ==
  /\ \E k \in {1, 2} :
       /\ \E face \in Die_possible_states(Die(k)) :
            SetDie(k, Die_start_roll(Die(k), face))
       /\ returned' = [op |-> "start_roll", value |-> k]
  /\ UNCHANGED <<GameFields, TimerFields, board, moves>>

\* die.update()
Update ==
  /\ \E k \in {1, 2} :
       /\ \E face \in Die_possible_states(Die(k)) :
            SetDie(k, Die_update(Die(k), face))
       /\ returned' = [op |-> "update", value |-> k]
  /\ UNCHANGED <<GameFields, TimerFields, board, moves>>

\* die.stop_roll()
StopRoll ==
  /\ \E k \in {1, 2} :
       /\ SetDie(k, Die_stop_roll(Die(k)))
       /\ returned' = [op |-> "stop_roll", value |-> k]
  /\ UNCHANGED <<GameFields, TimerFields, board, moves>>

\* The clock moves on while no method is called.
Wait ==
  /\ \E dt \in Dts :
       /\ die1' = [die1 EXCEPT !.timer = Timer_elapse(@, dt)]
       /\ die2' = [die2 EXCEPT !.timer = Timer_elapse(@, dt)]
  /\ returned' = [op |-> "wait", value |-> 0]
  /\ UNCHANGED <<GameFields, TimerFields, board, moves>>

DiceNext ==
  \/ StartRoll
  \/ Update
  \/ StopRoll
  \/ Wait

DiceSpec == DiceInit /\ [][DiceNext]_vars

(***************************************************************************)
(* A timer on its own: start, is_done and stop called on it one call at a  *)
(* time, with the current time of pygame or with a time handed in, the     *)
(* clock moving on between the calls.                                      *)
(***************************************************************************)
\* The clock moves on in steps of TimerStep until MaxTicks.
TimerStep == 25
MaxTicks == 200

\* The times to wait a timer is started with: none, and those of the dice
\* and of the pause of the setup.
TimerWaits == {0, DIE_SPEED, SETUP_WAIT}

\* The readings of the clock.
ClockTimes == {t \in 0..MaxTicks : t % TimerStep = 0}

\* Timer() or Timer(time_to_wait), created at the start of pygame's clock.
TimerInit ==
  /\ Game_init
  /\ die1 = Die_init(1)
  /\ die2 = Die_init(1)
  /\ board = Board_init
  /\ returned = NoCall
  /\ ticks = 0
  /\ \/ timer = STOPPED /\ running = FALSE
     \/ \E time_to_wait \in TimerWaits :
          /\ timer = Timer_start_from(time_to_wait, 0)
          /\ running = TRUE

\* timer.start(time_to_wait) and timer.start(time_to_wait, start_time)
TimerStart ==
  /\ \E time_to_wait \in TimerWaits, start_time \in ClockTimes :
       /\ timer' = Timer_start_from(time_to_wait, start_time)
       /\ returned' = [op |-> "start", value |-> <<time_to_wait, start_time>>]
  /\ running' = TRUE
  /\ UNCHANGED <<GameFields, die1, die2, board, moves, ticks>>

\* timer.is_done() and timer.is_done(current_time)
TimerIsDone ==
  /\ \E current_time \in ClockTimes :
       returned' = [op |-> "is_done",
                    value |-> <<current_time,
                                Timer_is_done_by(timer, current_time)>>]
  /\ UNCHANGED <<GameFields, die1, die2, board, moves, TimerFields>>

\* timer.stop()
TimerStop ==
  /\ timer' = Timer_stop
  /\ running' = FALSE
  /\ returned' = [op |-> "stop", value |-> 0]
  /\ UNCHANGED <<GameFields, die1, die2, board, moves, ticks>>

\* The clock moves on while no method is called.
TimerWait ==
  /\ ticks + TimerStep <= MaxTicks
  /\ ticks' = ticks + TimerStep
  /\ returned' = [op |-> "wait", value |-> 0]
  /\ UNCHANGED <<GameFields, die1, die2, board, moves, timer, running>>

TimerNext ==
  \/ TimerStart
  \/ TimerIsDone
  \/ TimerStop
  \/ TimerWait

TimerSpec == TimerInit /\ [][TimerNext]_vars

(***************************************************************************)
(* Properties                                                              *)
(***************************************************************************)
\* The program is running: it has not quit and has raised no exception.
Live == ~game_exit /\ board.error = ""

\* The game as the next tick may leave it just before it handles the
\* events: one value per frame time and per draw of the dice.
Updates ==
  {Game_tick_update(Cur, dt, face1, face2) :
     dt \in Dts, face1 \in Draws(die1), face2 \in Draws(die2)}

Other(player) == IF player = "red" THEN "purple" ELSE "red"

InMove == Live /\ state = "MAIN_GAME" /\ turn_stage = "MOVE"

\* C1: with a non-doubles roll, the tick in which no frog is moving any more
\* and both dice have been used once resets both use counts to 0, hands the
\* turn to the other player and goes to ROLL / BEFORE_ROLL; any other tick
\* of the move stage leaves the turn with the player and the use counts as
\* they are, and after the first movement the game is back at BEFORE_DIE.
C1_NonDoublesTurnEnd ==
  (InMove /\ ~doubles) =>
    \A g \in Updates :
      g.board.error = "" =>
        LET settled == move_state = "DURING_FROG_MOVEMENT"
                       /\ NoFrogMoving(g.board)
        IN IF settled /\ die1.use_count = 1 /\ die2.use_count = 1
           THEN /\ g.die1.use_count = 0
                /\ g.die2.use_count = 0
                /\ g.rolling_player = Other(rolling_player)
                /\ g.turn_stage = "ROLL"
                /\ g.roll_state = "BEFORE_ROLL"
           ELSE /\ g.turn_stage = "MOVE"
                /\ g.rolling_player = rolling_player
                /\ g.die1.use_count = die1.use_count
                /\ g.die2.use_count = die2.use_count
                /\ settled => g.move_state = "BEFORE_DIE"

\* A non-doubles turn whose second movement ends in the next tick.
C1_Witness ==
  /\ InMove /\ ~doubles
  /\ die1.use_count = 1 /\ die2.use_count = 1
  /\ \E g \in Updates :
       g.turn_stage = "ROLL" /\ g.rolling_player = Other(rolling_player)

\* C2: under a doubles roll neither die is ever used more than twice, a die
\* used twice cannot be selected, the turn ends in the tick in which no frog
\* is moving and the use counts add up to 4, and in no other tick; a
\* movement that ends with fewer than 4 uses leads back to BEFORE_DIE.
C2_DoublesTurnEnd ==
  (InMove /\ doubles) =>
    /\ die1.use_count <= 2
    /\ die2.use_count <= 2
    /\ \A g \in Updates :
         g.board.error = "" =>
           LET settled == move_state = "DURING_FROG_MOVEMENT"
                          /\ NoFrogMoving(g.board)
           IN /\ IF settled /\ die1.use_count + die2.use_count = 4
                 THEN /\ g.turn_stage = "ROLL"
                      /\ g.rolling_player = Other(rolling_player)
                 ELSE /\ g.turn_stage = "MOVE"
                      /\ g.rolling_player = rolling_player
                      /\ settled => g.move_state = "BEFORE_DIE"
              /\ g.die1.use_count = 2 =>
                   Game_handle_mouse_up(g, Die1Point, 1, 1).selected_die
                     = g.selected_die
              /\ g.die2.use_count = 2 =>
                   Game_handle_mouse_up(g, Die2Point, 1, 1).selected_die
                     = g.selected_die

\* A doubles turn whose fourth movement ends in the next tick.
C2_Witness ==
  /\ InMove /\ doubles
  /\ die1.use_count + die2.use_count = 4
  /\ \E g \in Updates : g.turn_stage = "ROLL"

\* C3: in the roll stage of the main game a click on the roll button at
\* BEFORE_ROLL starts both dice and gives DURING_ROLL, a click at
\* DURING_ROLL stops both dice on the faces they show and gives AFTER_ROLL,
\* and the tick after sets doubles to whether those two faces are equal,
\* leaves the faces alone and goes to MOVE / BEFORE_DIE.
C3_RollStage ==
  (Live /\ state = "MAIN_GAME" /\ turn_stage = "ROLL") =>
    \A g \in Updates :
      /\ roll_state = "AFTER_ROLL" =>
           /\ g.doubles = (die1.state = die2.state)
           /\ g.die1.state = die1.state
           /\ g.die2.state = die2.state
           /\ g.turn_stage = "MOVE"
           /\ g.move_state = "BEFORE_DIE"
      /\ roll_state # "AFTER_ROLL" =>
           \A face1 \in Draws(g.die1), face2 \in Draws(g.die2) :
             \E h \in {Game_handle_mouse_up(g, RollPoint, face1, face2)} :
               IF roll_state = "BEFORE_ROLL"
               THEN /\ g.roll_state = "BEFORE_ROLL"
                    /\ h.roll_state = "DURING_ROLL"
                    /\ h.die1.timer # STOPPED
                    /\ h.die2.timer # STOPPED
                    /\ h.turn_stage = "ROLL"
               ELSE /\ g.roll_state = "DURING_ROLL"
                    /\ h.roll_state = "AFTER_ROLL"
                    /\ h.die1.timer = STOPPED
                    /\ h.die2.timer = STOPPED
                    /\ h.die1.state = g.die1.state
                    /\ h.die2.state = g.die2.state
                    /\ h.turn_stage = "ROLL"

\* The dice of the main game stopped on equal faces.
C3_Witness ==
  /\ Live /\ state = "MAIN_GAME" /\ turn_stage = "ROLL"
  /\ roll_state = "AFTER_ROLL"
  /\ die1.state = die2.state
  /\ die1.timer = STOPPED /\ die2.timer = STOPPED

\* C4: in SETUP red rolls before purple; the tick after a player stopped the
\* die records the face it shows for that player; once both are recorded,
\* equal records lead to SETUP_TIE and unequal ones to SETUP_WAITING with
\* the player of the strictly higher record as the rolling player.
C4_SetupOrder ==
  (Live /\ state = "SETUP") =>
    /\ ~has_rolled_before => rolling_player = "red"
    /\ rolling_player = "purple" => rolls.red \in 1..6
    /\ rolling_player = "done" => rolls.red \in 1..6 /\ rolls.purple \in 1..6
    /\ \A g \in Updates :
         /\ (rolling_player = "red" /\ roll_state = "AFTER_ROLL") =>
              /\ g.rolls.red = die1.state
              /\ g.rolling_player = "purple"
              /\ g.roll_state = "BEFORE_ROLL"
              /\ g.state = "SETUP"
         /\ (rolling_player = "purple" /\ roll_state = "AFTER_ROLL") =>
              /\ g.rolls.purple = die1.state
              /\ g.rolls.red = rolls.red
              /\ g.rolling_player = "done"
              /\ g.state = "SETUP"
         /\ (rolling_player # "done" /\ roll_state # "AFTER_ROLL") =>
              /\ g.rolls = rolls
              /\ g.rolling_player = rolling_player
              /\ g.state = "SETUP"
         /\ rolling_player = "done" =>
              IF rolls.red = rolls.purple THEN g.state = "SETUP_TIE"
              ELSE /\ g.state = "SETUP_WAITING"
                   /\ g.rolling_player =
                        IF rolls.red > rolls.purple THEN "red" ELSE "purple"

\* Purple rolled the higher face and the game waits to start.
C4_Witness ==
  /\ Live /\ state = "SETUP_WAITING"
  /\ rolls.purple > rolls.red
  /\ rolling_player = "purple"

\* The count of the frogs of one colour in the registry.
FrogsOf(b, color) ==
  Cardinality({i \in 1..Len(b.frogs) : b.frogs[i].color = color})

\* C5 as stated: a click on the OK button in SETUP_TIE gives SETUP with
\* both roll records cleared, red as the rolling player and BEFORE_ROLL;
\* any other click changes nothing.
C5_AsStated ==
  (Live /\ state = "SETUP_TIE") =>
    \A g \in Updates :
      /\ \E h \in {Game_handle_mouse_up(g, OkPoint, 1, 1)} :
           /\ h.state = "SETUP"
           /\ h.rolls = [red |-> 0, purple |-> 0]
           /\ h.rolling_player = "red"
           /\ h.roll_state = "BEFORE_ROLL"
      /\ \A pos \in ClickPoints(g) \ {OkPoint} :
           Game_handle_mouse_up(g, pos, 1, 1) = g

\* C5: a click on the OK button, once the button has been drawn, gives SETUP
\* with red as the rolling player and BEFORE_ROLL and changes nothing else:
\* both roll records keep the faces of the tie; any other click, and a click
\* where the button has not been drawn yet, changes nothing.
C5_TieOk ==
  (Live /\ state \in {"SETUP", "SETUP_TIE"}) =>
    \A g \in Updates :
      g.state = "SETUP_TIE" =>
        /\ state = "SETUP_TIE" => g.ok_button
        /\ g.rolls.red = g.rolls.purple /\ g.rolls.red \in 1..6
        /\ \E h \in {Game_handle_mouse_up(g, OkPoint, 1, 1)} :
             IF g.ok_button
             THEN h = [g EXCEPT !.state = "SETUP",
                                !.rolling_player = "red",
                                !.roll_state = "BEFORE_ROLL"]
             ELSE h = g
        /\ \A pos \in ClickPoints(g) \ {OkPoint} :
             Game_handle_mouse_up(g, pos, 1, 1) = g

\* The game is back in SETUP after a tie, the records of the tie still there.
C5_Witness ==
  /\ Live /\ state = "SETUP"
  /\ rolling_player = "red" /\ roll_state = "BEFORE_ROLL"
  /\ has_rolled_before
  /\ rolls.red = rolls.purple /\ rolls.red \in 1..6

\* C6 as stated: the tick that ends SETUP_WAITING puts 14 frogs of each
\* colour, 28 in all, into the registry.
C6_AsStated ==
  (Live /\ state = "SETUP_WAITING") =>
    \A g \in Updates :
      g.state = "MAIN_GAME" =>
        /\ Len(g.board.frogs) = 28
        /\ FrogsOf(g.board, "red") = 14
        /\ FrogsOf(g.board, "purple") = 14

\* C6: the tick that ends SETUP_WAITING puts 12 frogs of each colour, 24 in
\* all, into the registry, each on the stack of its space at its layer: 6
\* of the first player on sw, 6 of the second on se, and 2 of each on 5, 10
\* and 15.
C6_StartingPieces ==
  (Live /\ state = "SETUP_WAITING") =>
    \A g \in Updates :
      g.state = "MAIN_GAME" =>
        /\ Len(g.board.frogs) = 24
        /\ FrogsOf(g.board, "red") = 12
        /\ FrogsOf(g.board, "purple") = 12
        /\ \A i \in 1..Len(g.board.frogs) :
             LET fr == g.board.frogs[i]
             IN /\ fr.layer + 1 \in 1..Len(g.board.spaces[fr.space])
                /\ g.board.spaces[fr.space][fr.layer + 1] = i
        /\ \A s \in SpaceNames :
             Len(g.board.spaces[s]) =
               IF s \in {"sw", "se"} THEN 6
               ELSE IF s \in {"5", "10", "15"} THEN 4 ELSE 0
        /\ \A i \in 1..6 :
             /\ g.board.frogs[g.board.spaces["sw"][i]].color = rolling_player
             /\ g.board.frogs[g.board.spaces["se"][i]].color
                  = Other(rolling_player)

\* The starting frogs are on the board and none has moved yet.
C6_Witness ==
  /\ Live /\ state = "MAIN_GAME" /\ moves = 0
  /\ Len(board.frogs) = 24
  /\ FrogsOf(board, "red") = 12

\* What C7 says of every state.
C7_Waiting ==
  /\ (Live /\ state # "MAIN_GAME") => board.frogs = << >>
  /\ (Live /\ state = "SETUP") =>
       \A g \in Updates :
         g.state = "SETUP_WAITING" => g.setup_timer = SETUP_WAIT
  /\ (Live /\ state = "SETUP_WAITING") =>
       /\ setup_timer \in 0..SETUP_WAIT
       /\ rolls.red # rolls.purple
       /\ rolling_player = IF rolls.red > rolls.purple THEN "red" ELSE "purple"
       /\ \A dt \in Dts :
            \A g \in {Game_tick_update(Cur, dt, face1, face2) :
                        face1 \in Draws(die1), face2 \in Draws(die2)} :
              IF setup_timer - dt > 0
              THEN /\ g.state = "SETUP_WAITING"
                   /\ g.board.frogs = << >>
                   /\ g.setup_timer = setup_timer - dt
                   /\ g.rolling_player = rolling_player
                   /\ \A pos \in ClickPoints(g), n \in 1..MaxClicks :
                        Game_handle_events(g, pos, n, 1, 1) = g
              ELSE /\ g.state = "MAIN_GAME"
                   /\ g.turn_stage = "ROLL"
                   /\ g.roll_state = "BEFORE_ROLL"
                   /\ g.rolling_player = rolling_player
                   /\ g.board.frogs # << >>
                   /\ g.setup_timer = STOPPED

\* What C7 says of every step: the registry of frogs changes only in a tick
\* that starts in SETUP_WAITING with an empty registry.
C7_PlacedOnce ==
  board'.frogs # << >> /\ Len(board'.frogs) # Len(board.frogs)
    => state = "SETUP_WAITING" /\ board.frogs = << >>

\* C7: the game stays in SETUP_WAITING with an empty board, ignoring every
\* click, while the timer of SETUP_WAIT ms started on entry is not done; the
\* first tick that finds it done places the frogs and gives MAIN_GAME / ROLL
\* / BEFORE_ROLL with the winner of the setup rolls as the rolling player;
\* no later tick adds a frog.
C7_SetupWaiting == []C7_Waiting /\ [][C7_PlacedOnce]_vars

\* The game still waits, part of the pause gone.
C7_Witness ==
  /\ Live /\ state = "SETUP_WAITING"
  /\ setup_timer \in 1..(SETUP_WAIT - 1)

\* The game waits for a click on a frog, a die being selected.
AwaitsFrog(g) ==
  /\ g.board.error = ""
  /\ g.state = "MAIN_GAME" /\ g.turn_stage = "MOVE"
  /\ g.move_state \in {"BEFORE_FROG", "BEFORE_FROG_ERROR"}
  /\ g.selected_die # 0

\* Frog f is one a click may move: of the rolling player, highest of its
\* stack, at rest, with a legal leap of the face of the selected die.
Movable(g, f) ==
  /\ g.board.frogs[f].color = g.rolling_player
  /\ Space_is_on_top(g.board, g.board.frogs[f].space, f)
  /\ ~Frog_is_moving(g.board.frogs[f])
  /\ Frog_can_make_legal_leap(g.board, f, SelectedDie(g).state)

\* The frogs a click at pos is tested against: at rest, highest of their
\* stack, their box around pos.
Hit(g, pos) ==
  {j \in 1..Len(g.board.frogs) :
     /\ ~Frog_is_moving(g.board.frogs[j])
     /\ collidepoint(Frog_collision_rect(g.board.frogs[j]), pos)
     /\ Space_is_on_top(g.board, g.board.frogs[j].space, j)}

C9_AsStated ==
  InMove =>
    \A g \in Updates :
      AwaitsFrog(g) =>
        \A f \in 1..Len(g.board.frogs) :
          ~Movable(g, f) =>
            Game_handle_mouse_up(g, FrogPoint(g.board.frogs[f]), 1, 1)
              = [g EXCEPT !.move_state = "BEFORE_FROG_ERROR"]

\* C9: a click that is on the box of some frog that is at rest and the
\* highest of its stack, and on the box of no movable frog, gives
\* BEFORE_FROG_ERROR, raises nothing and leaves everything else (the board,
\* the use counts, the selection, the rolling player) as it is; a click
\* that is on the box of no frog at rest and highest of its stack, such as
\* one on a frog lower in a stack, changes nothing at all.
C9_IllegalClick ==
  InMove =>
    \A g \in Updates :
      AwaitsFrog(g) =>
        \A f \in 1..Len(g.board.frogs) :
          \E pos \in {FrogPoint(g.board.frogs[f])} :
            \E h \in {Game_handle_mouse_up(g, pos, 1, 1)} :
              IF Hit(g, pos) = {} THEN h = g
              ELSE (\A j \in Hit(g, pos) : ~Movable(g, j)) =>
                     h = [g EXCEPT !.move_state = "BEFORE_FROG_ERROR"]

\* A click was rejected: the game shows the error with a die still selected
\* and nothing moving.
C9_Witness ==
  /\ InMove /\ move_state = "BEFORE_FROG_ERROR"
  /\ selected_die # 0
  /\ NoFrogMoving(board)

\* The point of die k.
DiePoint(k) == IF k = 1 THEN Die1Point ELSE Die2Point

C11_BeforeDieClick ==
  InMove =>
    \A g \in Updates :
      (/\ g.board.error = ""
       /\ g.turn_stage = "MOVE"
       /\ g.move_state = "BEFORE_DIE") =>
        \A k \in {1, 2} :
          \E d \in {IF k = 1 THEN g.die1 ELSE g.die2} :
            \E h \in {Game_handle_mouse_up(g, DiePoint(k), 1, 1)} :
              /\ d.use_count \in 0..2
              /\ IF d.use_count = 0 \/ (g.doubles /\ d.use_count = 1)
                 THEN h = [g EXCEPT !.selected_die = k,
                                    !.move_state = "BEFORE_FROG"]
                 ELSE h = g

\* Under doubles a die used once has been selected again.
C11_Witness ==
  /\ InMove /\ move_state = "BEFORE_FROG"
  /\ doubles
  /\ selected_die # 0
  /\ SelectedDie(Cur).use_count = 1

\* C12: in DURING_FROG_MOVEMENT, a tick after whose rendering some frog is
\* still moving (on a hop of its stepwise way, on its way home after a
\* capture, or shifting down a layer) leaves the game in DURING_FROG_MOVEMENT
\* with the turn and the use counts as they are, whatever is clicked; a tick
\* after whose rendering no frog is moving ends the turn or gives BEFORE_DIE.
C12_MovementBlocks ==
  (InMove /\ move_state = "DURING_FROG_MOVEMENT") =>
    \A g \in Updates :
      g.board.error = "" =>
        IF NoFrogMoving(g.board)
        THEN \/ g.turn_stage = "ROLL" /\ g.roll_state = "BEFORE_ROLL"
             \/ g.turn_stage = "MOVE" /\ g.move_state = "BEFORE_DIE"
        ELSE /\ g.turn_stage = "MOVE"
             /\ g.move_state = "DURING_FROG_MOVEMENT"
             /\ g.rolling_player = rolling_player
             /\ g.die1.use_count = die1.use_count
             /\ g.die2.use_count = die2.use_count
             /\ \A pos \in ClickPoints(g), n \in 1..MaxClicks :
                  Game_handle_events(g, pos, n, 1, 1) = g

\* The game waits while a captured frog is on its way home and the frog
\* that hit it shifts down a layer, the stepwise move being over.
C12_Witness ==
  /\ InMove /\ move_state = "DURING_FROG_MOVEMENT"
  /\ \A f \in 1..Len(board.frogs) : ~board.frogs[f].stepwise_movement
  /\ \E f \in 1..Len(board.frogs) :
       board.frogs[f].is_being_sent_home /\ Frog_is_moving(board.frogs[f])
  /\ \E f \in 1..Len(board.frogs) :
       /\ ~board.frogs[f].is_being_sent_home
       /\ Frog_is_moving(board.frogs[f])

\* The colour of the frog at place i, from the bottom, of a stack.
ColorAt(b, st, i) == b.frogs[st[i]].color

\* What C13 says of every state: for every space and every frog, the stack
\* cannot take the frog exactly if it is at capacity or its three highest
\* frogs exist and are all of the other colour; with fewer than three frogs,
\* or the three highest not all of the other colour, the answer is whether
\* the stack is below capacity.
C13_Rule ==
  board.error = "" =>
    \A s \in SpaceNames, f \in 1..Len(board.frogs) :
      LET st == board.spaces[s]
          n == Len(st)
          wall == /\ n >= 3
                  /\ \A i \in (n - 2)..n :
                       ColorAt(board, st, i) # board.frogs[f].color
      IN /\ Space_can_legally_take(board, s, f)
              = ~(n >= Capacity(s) \/ wall)
         /\ ~wall => Space_can_legally_take(board, s, f) = (n < Capacity(s))

\* What C13 says of every step: a call of can_legally_take leaves the board,
\* and with it every stack, as it is.
C13_NoMutation == returned'.op = "can_legally_take" => board' = board

\* C13: can_legally_take is false exactly for a stack at capacity or one
\* whose three highest frogs are all of the colour opposite to the frog's,
\* is (length < capacity) for every other stack, and changes no stack.
C13_CanLegallyTake == []C13_Rule /\ [][C13_NoMutation]_vars

\* can_legally_take has just refused a frog a stack that is below capacity:
\* its three highest frogs are of the other colour.
C13_Witness ==
  /\ board.error = ""
  /\ returned.op = "can_legally_take"
  /\ returned.value = FALSE
  /\ \E s \in PieceSpaces :
       /\ Len(board.spaces[s]) \in 3..(Capacity(s) - 1)
       /\ \E f \in 1..Len(board.frogs) :
            ~Space_can_legally_take(board, s, f)

\* C14: send_frogs_home on a stack of at least 2 frogs whose highest frog
\* differs in colour from the second highest, the stack having fewer than 3
\* frogs or the third highest differing in colour from the second highest,
\* sends the second highest frog home: it is taken out of the stack, heads
\* for the root of its path and is the only frog sent home.  On any other
\* stack the call changes nothing.
C14_SendFrogsHome ==
  (board.error = "" /\ NoFrogMoving(board)) =>
    \A s \in SpaceNames :
      \E b2 \in {Space_send_frogs_home(board, s)} :
        LET st == board.spaces[s]
            n == Len(st)
        IN IF /\ n >= 2
              /\ ColorAt(board, st, n) # ColorAt(board, st, n - 1)
              /\ (n < 3 \/ ColorAt(board, st, n - 2) # ColorAt(board, st, n - 1))
           THEN /\ b2.error = ""
                /\ b2.frogs[st[n - 1]].is_being_sent_home
                /\ b2.frogs[st[n - 1]].target_space
                     = board.frogs[st[n - 1]].path[1]
                /\ Frog_is_moving(b2.frogs[st[n - 1]])
                /\ b2.spaces[s] = SubSeq(st, 1, n - 2) \o <<st[n]>>
                /\ \A t \in SpaceNames \ {s} : b2.spaces[t] = board.spaces[t]
                /\ \A j \in 1..Len(board.frogs) :
                     j # st[n - 1] => ~b2.frogs[j].is_being_sent_home
           ELSE b2 = board

\* send_frogs_home has just sent a frog home from under the frog that hit
\* it, a frog of the colour of the hitting frog lying under the two.
C14_Witness ==
  /\ board.error = ""
  /\ returned.op = "send_frogs_home"
  /\ \E f \in 1..Len(board.frogs) :
       /\ board.frogs[f].is_being_sent_home
       /\ Len(board.spaces[board.frogs[f].space]) >= 2
       /\ Frog_is_moving(board.frogs[f])

\* C16: add on a stack below capacity puts the frog on top of the stack,
\* changes no other stack and returns the length the stack had; add on a
\* stack at capacity raises RuntimeError and leaves every stack as it is.
C16_SpaceAdd ==
  board.error = "" =>
    \A s \in SpaceNames :
      \E added \in {Space_add(board, s, Len(board.frogs) + 1)} :
        IF Len(board.spaces[s]) < Capacity(s)
        THEN /\ added.b.error = ""
             /\ added.b.spaces[s]
                  = Append(board.spaces[s], Len(board.frogs) + 1)
             /\ added.layer = Len(board.spaces[s])
             /\ added.layer = Len(added.b.spaces[s]) - 1
             /\ \A t \in SpaceNames \ {s} :
                  added.b.spaces[t] = board.spaces[t]
        ELSE /\ added.b.error = "RuntimeError"
             /\ added.b.spaces = board.spaces

\* add has just raised on the full stack, which is as long as its capacity.
C16_Witness ==
  /\ returned.op = "add"
  /\ board.error = "RuntimeError"
  /\ \E s \in PieceSpaces : Len(board.spaces[s]) = Capacity(s)

\* What C20 says of every state: the face of each die is in 1..6, and every
\* face start_roll may draw is in 1..6 and is not the face the die shows.
C20_Faces ==
  \A k \in {1, 2} :
    /\ Die(k).state \in 1..6
    /\ Die_possible_states(Die(k)) # {}
    /\ \A face \in Die_possible_states(Die(k)) :
         /\ face \in 1..6
         /\ face # Die(k).state
         /\ Die_start_roll(Die(k), face).state = face

\* What C20 says of every step: start_roll changes the face of its die,
\* update changes it exactly if the timer of the die is done, and nothing
\* else changes a face.
C20_FaceChange ==
  \A k \in {1, 2} :
    IF returned'.op = "start_roll" /\ returned'.value = k
    THEN Die(k)'.state # Die(k).state
    ELSE IF returned'.op = "update" /\ returned'.value = k
    THEN (Die(k)'.state # Die(k).state) <=> Timer_is_done(Die(k).timer)
    ELSE Die(k)'.state = Die(k).state

\* C20: through every sequence of start_roll, update and stop_roll calls
\* the face of a die stays in 1..6 and every change of face gives a face
\* other than the one shown before.
C20_DieFaces == []C20_Faces /\ [][C20_FaceChange]_vars

\* update has just changed the face of die 1 and restarted its timer.
C20_Witness ==
  /\ returned.op = "update"
  /\ returned.value = 1
  /\ die1.timer = DIE_SPEED

\* The spaces whose stack holds frog f.
StacksWith(b, f) ==
  {s \in SpaceNames : \E i \in 1..Len(b.spaces[s]) : b.spaces[s][i] = f}

\* The number of places frog f has in the stack of space s.
TimesIn(b, s, f) ==
  Cardinality({i \in 1..Len(b.spaces[s]) : b.spaces[s][i] = f})

\* C15: no stack is ever longer than the capacity of its space; a frog whose
\* layer is the capacity of its space is on a stepwise move, heading for a
\* full space that is not its destination, and is on no stack; and a frog on
\* a stepwise move towards a space whose stack is full without it has that
\* layer.
C15_Capacity ==
  Live =>
    /\ \A s \in SpaceNames :
         /\ Capacity(s) \in {2, 5, 12}
         /\ Len(board.spaces[s]) <= Capacity(s)
    /\ \A f \in 1..Len(board.frogs) :
         LET fr == board.frogs[f]
         IN /\ fr.layer \in 0..Capacity(fr.space)
            /\ fr.layer = Capacity(fr.space) =>
                 /\ fr.stepwise_movement
                 /\ Frog_is_moving(fr)
                 /\ fr.space # fr.target_space
                 /\ Len(board.spaces[fr.space]) = Capacity(fr.space)
                 /\ StacksWith(board, f) = {}
            /\ (/\ fr.stepwise_movement
                /\ Len(board.spaces[fr.space]) = Capacity(fr.space)
                /\ fr.space \notin StacksWith(board, f)) =>
                 fr.layer = Capacity(fr.space)

\* A frog on a stepwise move passes over a full space.
C15_Witness ==
  /\ Live
  /\ \E f \in 1..Len(board.frogs) :
       /\ board.frogs[f].layer = Capacity(board.frogs[f].space)
       /\ board.frogs[f].stepwise_movement
       /\ Len(board.spaces[board.frogs[f].space])
            = Capacity(board.frogs[f].space)

\* C17: every frog of the registry is on at most one stack and at most once
\* on it; a frog on no stack is moving, either home after a capture or over
\* a full space on a stepwise move with the layer above the stack; a frog
\* that is not moving is on exactly the stack of its space, at its layer.
C17_OneStack ==
  Live =>
    \A f \in 1..Len(board.frogs) :
      LET fr == board.frogs[f]
      IN /\ Cardinality(StacksWith(board, f)) <= 1
         /\ \A s \in StacksWith(board, f) : TimesIn(board, s, f) = 1
         /\ StacksWith(board, f) = {} =>
              /\ Frog_is_moving(fr)
              /\ \/ fr.is_being_sent_home
                 \/ /\ fr.stepwise_movement
                    /\ fr.layer = Capacity(fr.space)
         /\ ~Frog_is_moving(fr) =>
              /\ StacksWith(board, f) = {fr.space}
              /\ fr.layer + 1 \in 1..Len(board.spaces[fr.space])
              /\ board.spaces[fr.space][fr.layer + 1] = f

\* A captured frog is on its way home, on no stack, while every frog at rest
\* is on its stack.
C17_Witness ==
  /\ Live
  /\ \E f \in 1..Len(board.frogs) :
       /\ board.frogs[f].is_being_sent_home
       /\ StacksWith(board, f) = {}
  /\ \E f \in 1..Len(board.frogs) :
       /\ ~Frog_is_moving(board.frogs[f])
       /\ StacksWith(board, f) = {board.frogs[f].space}

\* C18: between two ticks, a frog whose stepwise flag or being-sent-home
\* flag is set is moving (its coordinates differ from its target), and a
\* frog whose coordinates equal its target has neither flag set.
C18_MovingFlags ==
  Live =>
    \A f \in 1..Len(board.frogs) :
      LET fr == board.frogs[f]
      IN /\ (fr.stepwise_movement \/ fr.is_being_sent_home) =>
              (fr.x # fr.x_target \/ fr.y # fr.y_target)
         /\ (fr.x = fr.x_target /\ fr.y = fr.y_target) =>
              (~fr.stepwise_movement /\ ~fr.is_being_sent_home)
         /\ Frog_is_moving(fr) <=> (fr.x # fr.x_target \/ fr.y # fr.y_target)

\* A frog is on the last hop of its stepwise move, and a frog that finished
\* a stepwise move is at rest on a space next to its root's path.
C18_Witness ==
  /\ Live
  /\ \E f \in 1..Len(board.frogs) :
       /\ board.frogs[f].stepwise_movement
       /\ board.frogs[f].space = board.frogs[f].target_space
       /\ Frog_is_moving(board.frogs[f])
  /\ \E f \in 1..Len(board.frogs) :
       /\ ~Frog_is_moving(board.frogs[f])
       /\ ~board.frogs[f].stepwise_movement
       /\ board.frogs[f].space = "1"

\* The place of space s on the path of frog fr.
PathIndex(fr, s) == CHOOSE i \in 1..Len(fr.path) : fr.path[i] = s

\* No frog of the board is on its way home.
NoneSentHome(b) ==
  \A j \in 1..Len(b.frogs) : ~b.frogs[j].is_being_sent_home

\* What C19 says of every tick, for every frog.  The tick that starts a
\* stepwise move of n spaces puts the frog on the first space after its
\* start and sets its target n spaces after the start.  A tick during the
\* move, whatever its frame time, keeps the target and leaves the frog on
\* its space or puts it on the next space of its path; it sends no frog
\* home.  The move ends only in a tick that finds the frog on its target
\* space, and that tick sends the second highest frog of that stack home
\* exactly if the highest frog (the arriving one) differs in colour from it
\* and no frog of its colour lies directly under it.
C19_Hop ==
  board'.error = "" =>
    \A f \in 1..Len(board.frogs) :
      LET fr == board.frogs[f]
          to == board'.frogs[f]
          st == board.spaces[fr.space]
          n == Len(st)
      IN /\ (~fr.stepwise_movement /\ to.stepwise_movement) =>
              /\ PathIndex(to, to.space) = PathIndex(fr, fr.space) + 1
              /\ PathIndex(to, to.target_space) - PathIndex(fr, fr.space)
                   \in {die1.state, die2.state}
              /\ NoneSentHome(board')
         /\ (fr.stepwise_movement /\ to.stepwise_movement) =>
              /\ to.target_space = fr.target_space
              /\ PathIndex(to, to.space) - PathIndex(fr, fr.space) \in {0, 1}
              /\ PathIndex(to, to.space) <= PathIndex(to, to.target_space)
              /\ to.space # fr.space => fr.space # fr.target_space
              /\ NoneSentHome(board')
              /\ \A j \in 1..Len(board.frogs) :
                   j # f => /\ board'.frogs[j].space = board.frogs[j].space
                            /\ board'.frogs[j].layer = board.frogs[j].layer
                            /\ ~Frog_is_moving(board'.frogs[j])
         /\ (fr.stepwise_movement /\ ~to.stepwise_movement) =>
              /\ fr.space = fr.target_space
              /\ to.space = fr.target_space
              /\ n >= 1 /\ st[n] = f
              /\ IF /\ n >= 2
                    /\ ColorAt(board, st, n) # ColorAt(board, st, n - 1)
                    /\ (n < 3 \/ ColorAt(board, st, n - 2)
                                   # ColorAt(board, st, n - 1))
                 THEN \A j \in 1..Len(board.frogs) :
                        board'.frogs[j].is_being_sent_home <=> j = st[n - 1]
                 ELSE NoneSentHome(board')

\* What C19 says of every state: a frog on a stepwise move is on a space of
\* its path not after its target, and while it is on its way no frog is on
\* its way home.
C19_OnPath ==
  Live =>
    \A f \in 1..Len(board.frogs) :
      board.frogs[f].stepwise_movement =>
        /\ PathIndex(board.frogs[f], board.frogs[f].space)
             <= PathIndex(board.frogs[f], board.frogs[f].target_space)
        /\ NoneSentHome(board)

\* C19: a stepwise move of n spaces puts the frog on each of the n spaces
\* after its start in the order of its path, at most one space further per
\* tick whatever the frame time, and frogs are sent home once, from the
\* target space in the tick of the arrival there, never from a space on the
\* way.
C19_StepwiseMove == []C19_OnPath /\ [][C19_Hop]_vars

\* A frog on a stepwise move is on a space of its way, on top of a single
\* frog of the other colour, which stays where it is.
C19_Witness ==
  /\ Live
  /\ \E f \in 1..Len(board.frogs) :
       LET fr == board.frogs[f]
       IN /\ fr.stepwise_movement
          /\ fr.space # fr.target_space
          /\ Len(board.spaces[fr.space]) = 2
          /\ board.spaces[fr.space][2] = f
          /\ ColorAt(board, board.spaces[fr.space], 1) # fr.color
  /\ NoneSentHome(board)

\* What C21 says of every state: called with any time, is_done is true
\* exactly if the timer is running and the time is not before the done time;
\* that is what the last call of is_done returned.
C21_IsDone ==
  /\ \A now \in ClockTimes :
       Timer_is_done_by(timer, now) <=> (running /\ now >= timer)
  /\ returned.op = "is_done" =>
       returned.value[2] = (running /\ returned.value[1] >= timer)

\* What C21 says of every call: start sets the done time to the start time
\* plus the time to wait, whether the timer was running or not, and only
\* start and stop change the done time.
C21_Calls ==
  /\ returned'.op = "start" =>
       /\ timer' = returned'.value[1] + returned'.value[2]
       /\ running'
  /\ returned'.op = "stop" =>
       /\ ~running'
       /\ \A now \in ClockTimes : ~Timer_is_done_by(timer', now)
  /\ returned'.op \in {"is_done", "wait"} =>
       /\ timer' = timer
       /\ running' = running

\* C21: is_done(now) is true exactly if the timer was started, not stopped
\* since, and now is at or after the done time; after stop it is false for
\* every now until the next start; start sets the done time to now plus the
\* time to wait whether or not the timer was stopped first.
C21_Timer == []C21_IsDone /\ [][C21_Calls]_vars

\* is_done was called at the very done time of a running timer and
\* returned true.
C21_Witness ==
  /\ returned.op = "is_done"
  /\ running
  /\ returned.value[1] = timer
  /\ returned.value[2] = TRUE
  /\ ticks > 0

\* The place of frog f in the stack st, 0 if it is not in it.
IndexIn(st, f) ==
  IF \E i \in 1..Len(st) : st[i] = f
  THEN CHOOSE i \in 1..Len(st) : st[i] = f /\ \A j \in 1..(i - 1) : st[j] # f
  ELSE 0

\* What C22 says of a call of pull_out.
C22_Call ==
  (returned'.op = "pull_out" /\ board.error = "") =>
    LET s == returned'.value[1]
        f == returned'.value[2]
        st == board.spaces[s]
        idx == IndexIn(st, f)
    IN IF idx = 0
       THEN /\ board'.error = "ValueError"
            /\ board'.spaces = board.spaces
            /\ board'.frogs = board.frogs
       ELSE /\ board'.error = ""
            /\ board'.spaces[s]
                 = SubSeq(st, 1, idx - 1) \o SubSeq(st, idx + 1, Len(st))
            /\ \A t \in SpaceNames \ {s} : board'.spaces[t] = board.spaces[t]
            /\ \A i \in 1..Len(st) :
                 /\ i < idx =>
                      board'.frogs[st[i]].layer = board.frogs[st[i]].layer
                 /\ i > idx =>
                      board'.frogs[st[i]].layer = board.frogs[st[i]].layer - 1
            /\ \A i \in 1..Len(board'.spaces[s]) :
                 board'.frogs[board'.spaces[s][i]].layer = i - 1

\* C22: pull_out of a frog that is in the stack takes it out, wherever it
\* is, keeps the other frogs in their order, lowers the layer of each frog
\* that was above it by one and leaves the layer of each frog below it, so
\* that the layer of every frog left is its place in the stack, and changes
\* no other stack; pull_out of a frog that is not in the stack raises
\* ValueError and leaves every stack and every layer as they are.
C22_PullOut == [][C22_Call]_vars

\* pull_out has just taken a frog from under two others, which are now on
\* their way one layer down.
C22_Witness ==
  /\ board.error = ""
  /\ returned.op = "pull_out"
  /\ LET s == returned.value[1]
         f == returned.value[2]
     IN /\ IndexIn(board.spaces[s], f) = 0
        /\ Len(board.spaces[s]) >= 2
        /\ \E i \in 1..(Len(board.spaces[s]) - 1) :
             /\ board.frogs[board.spaces[s][i]].layer
                  >= board.frogs[f].layer
             /\ Frog_is_moving(board.frogs[board.spaces[s][i]])
             /\ Frog_is_moving(board.frogs[board.spaces[s][i + 1]])

\* What C23 says of a call of stepwise_move(n), n >= 1, on frog f.
C23_Call ==
  (returned'.op = "stepwise_move" /\ board.error = "") =>
    LET f == returned'.value[1]
        n == returned'.value[2]
        fr == board.frogs[f]
        to == board'.frogs[f]
        exists == PathIndex(fr, fr.space) + n <= Len(fr.path)
    IN /\ board'.error = "ValueError" <=> ~exists
       /\ ~exists =>
            /\ board'.spaces = board.spaces
            /\ to.space = fr.space
            /\ to.layer = fr.layer
            /\ to.stepwise_movement = fr.stepwise_movement
            /\ ~to.stepwise_movement
            /\ <<to.x, to.y, to.x_target, to.y_target, to.x_move, to.y_move>>
                 = <<fr.x, fr.y, fr.x_target, fr.y_target, fr.x_move,
                     fr.y_move>>
            /\ \A j \in 1..Len(board.frogs) :
                 j # f => board'.frogs[j] = board.frogs[j]

\* C23: stepwise_move(n) raises ValueError exactly if the path of the frog
\* has no space n places after the space of the frog; the call that raises
\* leaves the space, the layer and the stepwise flag of the frog and every
\* stack as they are: the frog stays on its stack and starts no movement.
C23_StepwiseMoveBounds == [][C23_Call]_vars

\* stepwise_move has just raised for a move one space longer than the rest
\* of the path of a frog, which is still on top of its stack.
C23_Witness ==
  /\ returned.op = "stepwise_move"
  /\ board.error = "ValueError"
  /\ LET f == returned.value[1]
         n == returned.value[2]
         fr == board.frogs[f]
     IN /\ PathIndex(fr, fr.space) + n = Len(fr.path) + 1
        /\ Space_is_on_top(board, fr.space, f)
        /\ ~Frog_is_moving(fr)

\* What C24 says of a call of direct_space_move on frog f.
C24_Call ==
  (returned'.op = "direct_space_move" /\ board.error = "") =>
    LET f == returned'.value[1]
        fr == board.frogs[f]
    IN (/\ fr.layer < Capacity(fr.space)
        /\ ~Space_is_on_top(board, fr.space, f)) =>
         /\ board'.error = "RuntimeError"
         /\ board'.spaces = board.spaces
         /\ board'.frogs[f].space = fr.space
         /\ board'.frogs[f].layer = fr.layer
         /\ board'.frogs = board.frogs

\* C24: direct_space_move on a frog whose layer is below the capacity of
\* its space and which is not the highest frog of the stack of its space
\* raises RuntimeError and changes nothing: the stack it is on, the stack of
\* the space asked for, and the space and the layer of the frog stay as they
\* are.
C24_DirectSpaceMoveOrder == [][C24_Call]_vars

\* direct_space_move has just raised for a frog that lies under another on
\* the stack of its space.
C24_Witness ==
  /\ returned.op = "direct_space_move"
  /\ board.error = "RuntimeError"
  /\ LET f == returned.value[1]
         fr == board.frogs[f]
     IN /\ IndexIn(board.spaces[fr.space], f) \in
             1..(Len(board.spaces[fr.space]) - 1)
        /\ fr.layer < Capacity(fr.space)
        /\ fr.space # returned.value[2]

\* The frogs of board b whose path starts on space root.
FrogsFrom(b, root) == {f \in 1..Len(b.frogs) : b.frogs[f].path[1] = root}

\* What C25 says of every state: a frog being sent home is moving, is on no
\* stack and heads for the root of its path, whose stack has room for it:
\* the stack of a root holds only frogs whose path starts there, and there
\* are no more of these than the capacity of the root.
C25_Room ==
  Live =>
    /\ \A root \in {"sw", "se"} :
         /\ \A i \in 1..Len(board.spaces[root]) :
              board.spaces[root][i] \in FrogsFrom(board, root)
         /\ Cardinality(FrogsFrom(board, root)) <= Capacity(root)
    /\ \A f \in 1..Len(board.frogs) :
         LET fr == board.frogs[f]
         IN fr.is_being_sent_home =>
              /\ Frog_is_moving(fr)
              /\ fr.target_space = fr.path[1]
              /\ fr.path[1] \in {"sw", "se"}
              /\ StacksWith(board, f) = {}
              /\ Len(board.spaces[fr.path[1]]) < Capacity(fr.path[1])
              /\ Space_lowest_empty_layer(board, fr.path[1]) # NoLayer

\* What C25 says of every tick, for every frog being sent home: no add on a
\* full stack is raised; the tick in which the frog stops being sent home
\* is the one in which it reaches its target, and in it the frog joins the
\* stack of its root on top, takes the root as its space and its place in
\* the stack as its layer, and the render priority offset of every frog
\* becomes 0; until then the stack of the root stays as it is.
C25_Land ==
  \A f \in 1..Len(board.frogs) :
    LET fr == board.frogs[f]
        to == board'.frogs[f]
        root == fr.path[1]
    IN fr.is_being_sent_home =>
         /\ board'.error \notin {"RuntimeError", "TypeError"}
         /\ IF to.is_being_sent_home
            THEN /\ Frog_is_moving(to)
                 /\ board'.spaces[root] = board.spaces[root]
            ELSE /\ ~Frog_is_moving(to)
                 /\ to.x = fr.x_target /\ to.y = fr.y_target
                 /\ to.space = root
                 /\ board'.spaces[root] = Append(board.spaces[root], f)
                 /\ to.layer = Len(board.spaces[root])
                 /\ board'.spaces[root][to.layer + 1] = f
                 /\ \A j \in 1..Len(board'.frogs) :
                      board'.frogs[j].render_priority_offset = 0

\* C25: the update in which a frog being sent home reaches its target takes
\* it out of that mode, puts it on top of the stack of the root of its
\* path, sets its layer to its place in that stack and resets the render
\* priority offset of every frog of the board to 0; the root always has
\* room for it.
C25_LandHome == []C25_Room /\ [][C25_Land]_vars

\* A frog that started the game away from the roots has been sent home and
\* is at rest on top of the stack of its root, no frog being on its way
\* home any more.
C25_Witness ==
  /\ Live
  /\ NoneSentHome(board)
  /\ \E f \in 1..Len(board.frogs) :
       LET fr == board.frogs[f]
       IN /\ f > 12
          /\ fr.space = fr.path[1]
          /\ ~Frog_is_moving(fr)
          /\ Space_is_on_top(board, fr.space, f)
          /\ fr.layer = Len(board.spaces[fr.space]) - 1
          /\ fr.render_priority_offset = 0

\* Frog fr is moving and is not being sent home.
InTransit(fr) == Frog_is_moving(fr) /\ ~fr.is_being_sent_home

\* C26 as stated: in every state of the game the render priority of every
\* moving frog that is not being sent home is higher than that of every
\* frog that is not moving and of every frog being sent home.
C26_AsStated ==
  Live =>
    \A f, g \in 1..Len(board.frogs) :
      (InTransit(board.frogs[f]) /\ ~InTransit(board.frogs[g])) =>
        board.frogs[f].render_priority > board.frogs[g].render_priority

\* C26: when render_frogs has called update_render_priority on every frog,
\* which changes nothing else, the render priority of a frog is its layer
\* plus its render priority offset, plus 100 exactly if it is moving and is
\* not being sent home; layer plus offset is below 100, so that the render
\* priority of every moving frog that is not being sent home is then higher
\* than that of every frog that is not moving and of every frog being sent
\* home.
C26_RenderPriority ==
  Live =>
    \E b \in {UpdatePriorities(board, 1)} :
      /\ b.spaces = board.spaces
      /\ Len(b.frogs) = Len(board.frogs)
      /\ \A f \in 1..Len(b.frogs) :
           LET fr == b.frogs[f]
           IN /\ fr = [board.frogs[f] EXCEPT
                         !.render_priority = fr.render_priority]
              /\ fr.layer + fr.render_priority_offset \in 0..99
              /\ fr.render_priority =
                   IF InTransit(fr)
                   THEN fr.layer + fr.render_priority_offset + 100
                   ELSE fr.layer + fr.render_priority_offset
              /\ \A g \in 1..Len(b.frogs) :
                   (InTransit(fr) /\ ~InTransit(b.frogs[g])) =>
                     fr.render_priority > b.frogs[g].render_priority

\* A frog moves down a layer on the stack it landed on while the frog it
\* hit is on its way home, and a frog at rest carries a render priority
\* offset of 50.
C26_Witness ==
  /\ Live
  /\ \E f, g, h \in 1..Len(board.frogs) :
       /\ InTransit(board.frogs[f])
       /\ board.frogs[f].render_priority_offset = 51
       /\ board.frogs[g].is_being_sent_home
       /\ Frog_is_moving(board.frogs[g])
       /\ ~Frog_is_moving(board.frogs[h])
       /\ board.frogs[h].render_priority_offset = 50

\* The distance of c from the target t does not grow from c to d, and d is
\* not on the other side of t.
Towards(c, d, t) ==
  IF c <= t THEN c <= d /\ d <= t ELSE t <= d /\ d <= c

\* The times handed to update_coords since the move of frog fr started add
\* up to the distance from the start to the target divided by PIXELS_PER_MS,
\* 0.2 pixels per millisecond, or to more.
TimeIsUp(fr, start) ==
  ticks * ticks >=
    25 * ( ((fr.x_target \div 1000) - start[1])
             * ((fr.x_target \div 1000) - start[1])
         + ((fr.y_target \div 1000) - start[2])
             * ((fr.y_target \div 1000) - start[2]) )

\* What C27 says of every state of a direct move: once the times handed to
\* update_coords add up to distance / PIXELS_PER_MS, the frog is on its
\* target on both axes and is_moving() is false.
C27_OnTime ==
  (board.error = "" /\ TimeIsUp(board.frogs[1], returned.value)) =>
    /\ board.frogs[1].x = board.frogs[1].x_target
    /\ board.frogs[1].y = board.frogs[1].y_target
    /\ ~Frog_is_moving(board.frogs[1])

\* What C27 says of every call of update_coords: each coordinate goes
\* towards its target and does not pass it.
C27_Monotone ==
  /\ Towards(board.frogs[1].x, board'.frogs[1].x, board.frogs[1].x_target)
  /\ Towards(board.frogs[1].y, board'.frogs[1].y, board.frogs[1].y_target)

InRoll == Live /\ state = "MAIN_GAME" /\ turn_stage = "ROLL"

\* What C28 says of every tick of the roll stage.  The tick whose events
\* stop the dice (DURING_ROLL becomes AFTER_ROLL) leaves the game in the
\* roll stage: its state machine ran before the click.  The tick after it
\* finds AFTER_ROLL and its state machine, before any event of that tick,
\* enters the move stage at BEFORE_DIE with the dice as they were stopped;
\* the events of that tick are handled in the move stage.
C28_Tick ==
  /\ (InRoll /\ roll_state = "DURING_ROLL" /\ roll_state' = "AFTER_ROLL") =>
       /\ state' = "MAIN_GAME"
       /\ turn_stage' = "ROLL"
       /\ \A g \in Updates : g.roll_state = "DURING_ROLL"
  /\ (InRoll /\ roll_state = "AFTER_ROLL") =>
       /\ \A g \in Updates :
            /\ g.turn_stage = "MOVE"
            /\ g.move_state = "BEFORE_DIE"
            /\ g.die1.state = die1.state
            /\ g.die2.state = die2.state
            /\ g.board = [board EXCEPT !.frogs = g.board.frogs]
       /\ vars' # vars =>
            /\ state' = "MAIN_GAME"
            /\ turn_stage' = "MOVE"
            /\ move_state' \in {"BEFORE_DIE", "BEFORE_FROG"}
            /\ roll_state' = "AFTER_ROLL"

\* C28: in a tick the frogs move and the state machine runs before the
\* events are handled, so the state machine answers a click in the next
\* tick: the click that stops the dice sets AFTER_ROLL in its own tick and
\* the game enters MOVE / BEFORE_DIE in the tick after it, not in the same
\* tick and not later.
C28_ClickLatency == [][C28_Tick]_vars

\* The dice of the main game have just been stopped by a click: the game is
\* still in the roll stage, with AFTER_ROLL.
C28_Witness ==
  /\ InRoll
  /\ roll_state = "AFTER_ROLL"
  /\ Len(board.frogs) > 0
  /\ die1.timer = STOPPED
  /\ die2.timer = STOPPED

\* The place of the first quit event of the queue, one past its end if it
\* holds none.
FirstQuit(queue) ==
  IF \E i \in 1..Len(queue) : queue[i] = "QUIT"
  THEN CHOOSE i \in 1..Len(queue) :
         queue[i] = "QUIT" /\ \A j \in 1..(i - 1) : queue[j] # "QUIT"
  ELSE Len(queue) + 1

\* The number of mouse-button-up events of the queue before place k.
UpsBefore(queue, k) ==
  Cardinality({i \in 1..(k - 1) : queue[i] = "MOUSEBUTTONUP"})

\* What C29 says of every tick: the game after it is the game after the
\* update and the handling of the mouse-button-up events queued before the
\* first quit event, and of no other event; tick returns true exactly if
\* the queue held a quit event; and no tick follows one that returned true.
C29_Tick ==
  /\ ~game_exit
  /\ returned'.op = "tick" =>
       LET queue == returned'.value[1]
           pos == returned'.value[2]
       IN /\ \E dt \in Dts, face1 \in Draws(die1), face2 \in Draws(die2) :
               Cur' = Game_handle_events(
                        Game_tick_update(Cur, dt, face1, face2), pos,
                        UpsBefore(queue, FirstQuit(queue)), face1, face2)
          /\ game_exit' <=> \E i \in 1..Len(queue) : queue[i] = "QUIT"

\* C29: in a tick whose queue holds a quit event the mouse-button-up events
\* queued before the first quit event are handled, no event after it is,
\* and tick returns true; tick returns false exactly if the queue holds no
\* quit event; run calls tick no more once it returned true.
C29_Quit == [][C29_Tick]_vars

\* tick has just returned true; a click on the roll button queued before
\* the quit event started the roll, and the click queued after it did not
\* stop the roll.
C29_Witness ==
  /\ game_exit
  /\ returned.op = "tick"
  /\ returned.value[1] = <<"MOUSEBUTTONUP", "QUIT", "MOUSEBUTTONUP">>
  /\ returned.value[2] = RollPoint
  /\ roll_state = "DURING_ROLL"

\* A frog has just been created: the registry of the board grew by one.
C30_Created == Len(board'.frogs) = Len(board.frogs) + 1

\* What C30 says of every frog created: it is the lowest frog of its
\* starting space, at layer 0, whatever that space held.
C30_AtBottom ==
  (C30_Created /\ board'.error = "") =>
    LET f == Len(board'.frogs)
        s == board'.frogs[f].space
    IN /\ board'.frogs[f].layer = 0
       /\ board'.spaces[s][1] = f

\* C30 as stated: a newly created frog enters at the bottom (layer 0) of
\* the stack of its starting space, whatever frogs that space holds.
C30_AsStated == [][C30_AtBottom]_vars

\* What the constructor does: on a space with room the frog is added above
\* the frogs the space held, which stay as they were, and its layer is their
\* number (0 on an empty space only); every other space is untouched.  On
\* a full space add raises RuntimeError and no stack changes.
C30_Call ==
  C30_Created =>
    LET f == Len(board'.frogs)
        s == board'.frogs[f].space
        n == Len(board.spaces[s])
    IN IF n < Capacity(s)
       THEN /\ board'.error = ""
            /\ board'.spaces = [board.spaces EXCEPT ![s] = Append(@, f)]
            /\ Space_is_on_top(board', s, f)
            /\ board'.frogs[f].layer = n
            /\ returned' = [op |-> "add", value |-> n]
            /\ \A e \in 1..Len(board.frogs) : board'.frogs[e] = board.frogs[e]
       ELSE /\ board'.error = "RuntimeError"
            /\ board'.spaces = board.spaces

\* C30, amended: a newly created frog enters at the top of the stack of its
\* starting space, at the layer equal to the number of frogs that space
\* already holds; the frogs below it keep their places.
C30_NewFrogOnTop == [][C30_Call]_vars

\* A frog has just been created on a space that held two frogs: it is the
\* third of the stack, at layer 2, and the first frog created there is still
\* at layer 0.
C30_Witness ==
  /\ board.error = ""
  /\ returned = [op |-> "add", value |-> 2]
  /\ Len(board.frogs) = 3
  /\ board.frogs[3].layer = 2
  /\ board.spaces[board.frogs[3].space] = <<1, 2, 3>>
  /\ board.frogs[1].layer = 0

\* A movement is under way: a move was committed and the move stage waits
\* for the frogs to come to rest.
InMovement == InMove /\ move_state = "DURING_FROG_MOVEMENT"

\* Every frog is at rest and the game is not waiting for a movement: no
\* frog is on a stepwise move, on its way home or shifting down.
C31_AtRest ==
  /\ NoFrogMoving(board)
  /\ ~InMovement
  /\ \A f \in 1..Len(board.frogs) :
       /\ ~board.frogs[f].stepwise_movement
       /\ ~board.frogs[f].is_being_sent_home
       /\ board.frogs[f].x = board.frogs[f].x_target
       /\ board.frogs[f].y = board.frogs[f].y_target

\* C31: as long as ticks keep occurring (the program has not quit and has
\* raised no exception), every committed move is followed by a state in
\* which no frog is moving and the game has left DURING_FROG_MOVEMENT: the
\* stepwise mover is at rest on a stack at its layer, no frog is on its way
\* home or shifting down.  Every frame time of the model is positive.
C31_MovementEnds == InMovement ~> (~Live \/ C31_AtRest)

\* Two moves have been committed and a frog captured by one of them is back
\* on its root; every frog is at rest and the game waits for a die again.
C31_Witness ==
  /\ InMove
  /\ moves = 2
  /\ move_state = "BEFORE_DIE"
  /\ NoFrogMoving(board)
  /\ \E s \in {"sw", "se"} : Len(board.spaces[s]) = 7
  /\ \A dt \in Dts : dt > 0

\* What C32 says of every state of the move stage: the roll is over, no die
\* is rolling, doubles tells whether the two faces are equal, and a
\* mouse-button-up event on the roll button handled in the move stage, in
\* whatever tick comes next, leaves the game as it is.
C32_Stage ==
  InMove =>
    /\ roll_state = "AFTER_ROLL"
    /\ die1.timer = STOPPED
    /\ die2.timer = STOPPED
    /\ doubles <=> (die1.state = die2.state)
    /\ \A g \in Updates :
         (g.board.error = "" /\ g.turn_stage = "MOVE") =>
           \A face1 \in Draws(g.die1), face2 \in Draws(g.die2) :
             Game_handle_mouse_up(g, RollPoint, face1, face2) = g

\* What C32 says of every tick that begins and ends in the move stage: the
\* faces of the dice are the same after it.
C32_Faces ==
  (InMove /\ InMove') =>
    /\ die1'.state = die1.state
    /\ die2'.state = die2.state

\* C32: in MAIN_GAME with turn stage MOVE the roll state is AFTER_ROLL and
\* neither die is rolling, the faces of the dice do not change as long as
\* the stage lasts, doubles stays equal to (die1 face = die2 face), and a
\* click on the roll button has no effect.
C32_MoveStageDice == []C32_Stage /\ [][C32_Faces]_vars

\* The move stage of a doubles roll, a die selected after the first move,
\* with the roll button still on the screen.
C32_Witness ==
  /\ InMove
  /\ roll_button
  /\ doubles
  /\ die1.state = die2.state
  /\ die1.use_count + die2.use_count = 1
  /\ move_state = "BEFORE_FROG"

\* C33: in the move stage a die is selected exactly when the move state is
\* BEFORE_FROG or BEFORE_FROG_ERROR, and the selected die then has a use
\* left (use_count = 0, or use_count <= 1 under doubles); in BEFORE_DIE and
\* DURING_FROG_MOVEMENT no die is selected.
C33_SelectedDie ==
  InMove =>
    /\ selected_die \in {0, 1, 2}
    /\ selected_die # 0 <=> move_state \in {"BEFORE_FROG", "BEFORE_FROG_ERROR"}
    /\ move_state \in {"BEFORE_DIE", "DURING_FROG_MOVEMENT"} =>
         selected_die = 0
    /\ selected_die # 0 =>
         \/ SelectedDie(Cur).use_count = 0
         \/ doubles /\ SelectedDie(Cur).use_count <= 1

\* Under doubles the die that was used once is selected again, after a click
\* on a frog that could not make the leap.
C33_Witness ==
  /\ InMove
  /\ doubles
  /\ move_state = "BEFORE_FROG_ERROR"
  /\ selected_die # 0
  /\ SelectedDie(Cur).use_count = 1

\* The uses of the two dice, together.
UseCounts == die1.use_count + die2.use_count

\* What C34 says of every state: the bounds of the use counts, and no use
\* outside the move stage.
C34_Bounds ==
  Live =>
    /\ die1.use_count \in 0..(IF doubles THEN 2 ELSE 1)
    /\ die2.use_count \in 0..(IF doubles THEN 2 ELSE 1)
    /\ UseCounts <= (IF doubles THEN 4 ELSE 2)
    /\ ~(state = "MAIN_GAME" /\ turn_stage = "MOVE") => UseCounts = 0

\* What C34 says of every tick: as long as the turn lasts the sum of the use
\* counts grows by the moves the tick commits, at most one, starting from 0
\* when the move stage is entered.
C34_Count ==
  (Live' /\ state' = "MAIN_GAME" /\ turn_stage' = "MOVE") =>
    /\ moves' - moves \in {0, 1}
    /\ UseCounts' = (IF InMove THEN UseCounts ELSE 0) + (moves' - moves)

\* C34: each die's use_count is between 0 and 1 when the roll is not doubles
\* and between 0 and 2 when it is, the sum never exceeds 2 (4 under
\* doubles), both counts are 0 throughout the roll stage, and the sum
\* equals the number of moves committed so far in the current turn.
C34_UseCounts == []C34_Bounds /\ [][C34_Count]_vars

\* The fourth move of a doubles turn is under way: both dice used twice.
C34_Witness ==
  /\ InMove
  /\ doubles
  /\ die1.use_count = 2
  /\ die2.use_count = 2
  /\ moves = 4
  /\ ~NoFrogMoving(board)

\* The frogs on a stepwise move, and those being sent home.
Stepwise(b) == {f \in 1..Len(b.frogs) : b.frogs[f].stepwise_movement}
SentHome(b) == {f \in 1..Len(b.frogs) : b.frogs[f].is_being_sent_home}

\* The game waits for a click: the roll stage, or the move stage before a
\* die or a frog is chosen.
AwaitsClick ==
  /\ state = "MAIN_GAME"
  /\ \/ turn_stage = "ROLL"
     \/ move_state \in {"BEFORE_DIE", "BEFORE_FROG", "BEFORE_FROG_ERROR"}

\* What C35 says of every state.
C35_Movers ==
  Live =>
    /\ Cardinality(Stepwise(board)) <= 1
    /\ Cardinality(SentHome(board)) <= 1
    /\ AwaitsClick => NoFrogMoving(board)

\* What C35 says of every tick: whatever the number of mouse-button-up
\* events it handles, it commits at most one move, and the frog it sets on
\* its stepwise way is the only one.
C35_OneCommit ==
  /\ moves' - moves \in {0, 1}
  /\ (Live' /\ moves' = moves + 1) =>
       /\ Cardinality(Stepwise(board')) = 1
       /\ Stepwise(board) = {}

\* C35: at most one frog is on a stepwise move and at most one is being sent
\* home at any time; while the game waits for a click (the roll stage,
\* BEFORE_DIE, BEFORE_FROG, BEFORE_FROG_ERROR) no frog is moving; the clicks
\* handled in one tick commit at most one move.
C35_OneMover == []C35_Movers /\ [][C35_OneCommit]_vars

\* A captured frog is on its way home while the frog that captured it
\* shifts down, during the second move of the run.
C35_Witness ==
  /\ InMovement
  /\ moves = 2
  /\ Cardinality(SentHome(board)) = 1
  /\ \E f \in 1..Len(board.frogs) :
       /\ Frog_is_moving(board.frogs[f])
       /\ ~board.frogs[f].is_being_sent_home
       /\ ~board.frogs[f].stepwise_movement

\* C36: the layer of every frog that is not moving is its place in the
\* stack of its space, counted from 0 at the bottom, so it is below the
\* capacity of the space and is no transient overflow layer; this holds in
\* every state the game reaches by moves and captures.
C36_LayerOfIdle ==
  Live =>
    \A f \in 1..Len(board.frogs) :
      LET fr == board.frogs[f]
          st == board.spaces[fr.space]
      IN ~Frog_is_moving(fr) =>
           /\ fr.layer \in 0..(Len(st) - 1)
           /\ st[fr.layer + 1] = f
           /\ fr.layer < Capacity(fr.space)
           /\ StacksWith(board, f) = {fr.space}
           /\ TimesIn(board, fr.space, f) = 1

\* A frog that came from a root has captured the highest frog of space 5 and
\* shifted down onto the three below: every frog is at rest, the captured
\* frog on its root, and the capturing frog is the fourth of the stack, at
\* layer 3.
C36_Witness ==
  /\ Live
  /\ NoFrogMoving(board)
  /\ \E s \in {"sw", "se"} : Len(board.spaces[s]) = 7
  /\ Len(board.spaces["5"]) = 4
  /\ board.spaces["5"][4] <= 12
  /\ board.frogs[board.spaces["5"][4]].layer = 3

\* The frogs whose render priority offset is not 0.
Lifted(b) ==
  {f \in 1..Len(b.frogs) : b.frogs[f].render_priority_offset # 0}

\* What C37 says of every state: offsets are 0, 50 or 51; one that is not 0
\* means a captured frog is on its way home; so with no frog moving every
\* offset is 0.
C37_Offsets ==
  Live =>
    /\ \A f \in 1..Len(board.frogs) :
         board.frogs[f].render_priority_offset \in {0, 50, 51}
    /\ Lifted(board) # {} => SentHome(board) # {}
    /\ SentHome(board) # {} =>
         \E f \in Lifted(board) : board.frogs[f].render_priority_offset = 51
    /\ NoFrogMoving(board) => Lifted(board) = {}

\* The two axes of a movement under way, each as <<distance left, speed>>;
\* an axis takes distance / speed milliseconds more.
AxesLeft(fr) ==
  {ax \in {<<Abs(fr.x_target - fr.x), Abs(fr.x_move)>>,
           <<Abs(fr.y_target - fr.y), Abs(fr.y_move)>>} : ax[2] # 0}

\* Frog fr needs at least as long to arrive as frog other: some axis of fr
\* takes at least as long as every axis of other.
Outlasts(fr, other) ==
  \E a \in AxesLeft(fr) :
    \A b \in AxesLeft(other) : a[1] * b[2] >= b[1] * a[2]

\* What C37 says of a capture under way: the captured frog has at least as
\* far to go, at the same speed, as every frog that is shifting down.
C37_Order ==
  Live =>
    \A c \in SentHome(board), f \in 1..Len(board.frogs) :
      (/\ Frog_is_moving(board.frogs[f])
       /\ ~board.frogs[f].stepwise_movement
       /\ f \notin SentHome(board)) =>
        Outlasts(board.frogs[c], board.frogs[f])

\* What C37 says of the tick in which a captured frog arrives at its root:
\* every offset is cleared, and no frog is still shifting down.
C37_Arrival ==
  (Live' /\ \E f \in SentHome(board) : f \notin SentHome(board')) =>
    /\ Lifted(board') = {}
    /\ \A f \in 1..Len(board'.frogs) :
         Frog_is_moving(board'.frogs[f]) => board'.frogs[f].stepwise_movement

OnEnemyWall(b, st, i) ==
  /\ i >= 4
  /\ ColorAt(b, st, i - 1) # ColorAt(b, st, i)
  /\ ColorAt(b, st, i - 2) = ColorAt(b, st, i - 1)
  /\ ColorAt(b, st, i - 3) = ColorAt(b, st, i - 1)

\* C38: whenever no frog is moving, no stack holds a frog lying directly on
\* three consecutive frogs of the other colour, in every state the game
\* reaches from the starting formation by landings, captures and arrivals
\* at a root.
C38_NoFrogOnWall ==
  (Live /\ NoFrogMoving(board)) =>
    \A s \in SpaceNames :
      \A i \in 1..Len(board.spaces[s]) : ~OnEnemyWall(board, board.spaces[s], i)

\* A heap of three frogs of one colour lies on a space with room, and a
\* frog of the other colour, on top of its stack, has just been refused the
\* leap that would land on the heap.
C38_Witness ==
  /\ Live
  /\ NoFrogMoving(board)
  /\ returned = [op |-> "can_make_legal_leap", value |-> 0]
  /\ \E f \in 1..Len(board.frogs), n \in RandomFaces :
       LET s == Frog_increment_space(board.frogs[f], n, board.frogs[f].space)
       IN /\ Frog_is_on_top(board, f)
          /\ s # ""
          /\ Len(board.spaces[s]) \in 3..(Capacity(s) - 1)
          /\ OnEnemyWall([board EXCEPT !.spaces[s] = Append(@, f)],
                         Append(board.spaces[s], f), Len(board.spaces[s]) + 1)

\* What C39 says of every state of the main game: the rolling player is red
\* or purple and the frog on a stepwise move is one of the rolling player's.
C39_Mover ==
  (Live /\ state = "MAIN_GAME") =>
    /\ rolling_player \in {"red", "purple"}
    /\ \A f \in Stepwise(board) : board.frogs[f].color = rolling_player

\* What C39 says of every tick of the main game: the turn ends (the move
\* stage gives way to the roll stage) exactly when the rolling player
\* changes, to the other player; that happens only in the move stage, in
\* DURING_FROG_MOVEMENT, with every use of the dice made and no frog moving;
\* and a frog set on a stepwise move is one of the rolling player's.
C39_Turn ==
  (Live' /\ state = "MAIN_GAME" /\ state' = "MAIN_GAME") =>
    /\ rolling_player' # rolling_player <=>
         (turn_stage = "MOVE" /\ turn_stage' = "ROLL")
    /\ rolling_player' # rolling_player =>
         /\ rolling_player' = Other(rolling_player)
         /\ move_state = "DURING_FROG_MOVEMENT"
         /\ UseCounts = (IF doubles THEN 4 ELSE 2)
         /\ UseCounts' = 0
         /\ NoFrogMoving(board')
         /\ moves' = moves
    /\ moves' = moves + 1 =>
         /\ rolling_player' = rolling_player
         /\ \E f \in Stepwise(board') :
              /\ board'.frogs[f].color = rolling_player
              /\ ~board.frogs[f].stepwise_movement

\* C39: in MAIN_GAME the rolling player changes only in the tick that ends a
\* turn (every die use made, no frog moving), never in the roll stage or in
\* the middle of a move stage; only frogs of the rolling player are set on
\* a stepwise move; consecutive turns alternate between red and purple.
C39_Alternation == []C39_Mover /\ [][C39_Turn]_vars

\* The second turn of the game: red won the setup rolls and made its two
\* moves, and a purple frog is on its stepwise move.
C39_Witness ==
  /\ InMovement
  /\ rolls.red > rolls.purple
  /\ rolling_player = "purple"
  /\ moves = 3
  /\ \E f \in Stepwise(board) : board.frogs[f].color = "purple"

\* The choices the rolling player has in the move stage: a die that still
\* has a use and a frog of the player's, at rest on top of its stack, that
\* can make the leap of the die's face.
LegalChoices(g) ==
  {c \in {1, 2} \X (1..Len(g.board.frogs)) :
     LET die == IF c[1] = 1 THEN g.die1 ELSE g.die2
         fr == g.board.frogs[c[2]]
     IN /\ DieUsable(g, die)
        /\ fr.color = g.rolling_player
        /\ ~Frog_is_moving(fr)
        /\ Frog_is_on_top(g.board, c[2])
        /\ Frog_can_make_legal_leap(g.board, c[2], die.state)}

\* C40 as stated: in every state of the move stage in which the game waits
\* for a click and a use of a die remains, the rolling player has a usable
\* die and a frog of its own, on top of its stack, that can make the leap
\* the die shows.
C40_AsStated ==
  (/\ InMove
   /\ move_state \in {"BEFORE_DIE", "BEFORE_FROG", "BEFORE_FROG_ERROR"}
   /\ NoFrogMoving(board)
   /\ UseCounts < (IF doubles THEN 4 ELSE 2)) =>
    LegalChoices(Cur) # {}

====
